---- MODULE Spec2Model ----
(***************************************************************************)
(* MediaFire SDK: the signed-request protocol (apiCall), the session store *)
(* of MediaFireClient (login / logout / getSession / setSession) and the   *)
(* two-phase upload (UploadModule.buffer / pollUpload).                    *)
(*                                                                         *)
(* JavaScript runs every piece of code between two awaits as one           *)
(* uninterrupted step, so every action below is one such piece: the code   *)
(* from the start of an operation to its first await, or from the          *)
(* resumption of an await to the next await / return / throw.              *)
(*                                                                         *)
(* Strings the code parses or formats (the secret key) are sequences of    *)
(* one-character strings; strings it only copies and compares (token,      *)
(* time, email) are atomic.  JavaScript numbers are records                *)
(* [nan, neg, val]: NaN, or the sign and magnitude of an integer.          *)
(***************************************************************************)
EXTENDS Integers, Sequences, FiniteSets, TLC

(***************************************************************************)
(* Bounds of the model.                                                    *)
(***************************************************************************)
MaxObjs == 2       \* session objects ever created by login / setSession
MaxOps == 2        \* operations ever started
MaxChain == 40     \* rotations applied in a row under SpecLCG
PollBudget == 2    \* maxAttempts of pollUpload (30 by default)
MaxRotations == 2  \* rotation instructions the server ever sends
MaxParams == 2     \* entries of the params a caller passes to apiCall

(***************************************************************************)
(* Program constants.                                                      *)
(***************************************************************************)
LCGMultiplier == 16807
LCGModulus == 2147483647
SigModulus == 256

\* two operations run side by side, each in a slot
CallIds == {1, 2}
ObjIds == 1..MaxObjs
NoSession == 0

(***************************************************************************)
(* parseInt(s, 10): leading blanks are skipped, one sign is accepted, the  *)
(* longest prefix of decimal digits is converted, and the result is NaN    *)
(* when there is no digit.                                                 *)
(***************************************************************************)
Digits == <<"0", "1", "2", "3", "4", "5", "6", "7", "8", "9">>

IsDigit(ch) == \E i \in 1..10 : Digits[i] = ch

DigitVal(ch) == (CHOOSE i \in 1..10 : Digits[i] = ch) - 1

NaN == [nan |-> TRUE, neg |-> FALSE, val |-> 0]

RECURSIVE SkipBlanks(_)
SkipBlanks(s) ==
    IF s # <<>> /\ Head(s) = " " THEN SkipBlanks(Tail(s)) ELSE s

RECURSIVE DigitsValue(_, _)
DigitsValue(s, acc) ==
    IF s = <<>> \/ ~IsDigit(Head(s)) THEN acc
    ELSE DigitsValue(Tail(s), acc * 10 + DigitVal(Head(s)))

parseInt(str) ==
    LET t == SkipBlanks(str)
        signed == t # <<>> /\ Head(t) \in {"-", "+"}
        body == IF signed THEN Tail(t) ELSE t
    IN  IF body = <<>> \/ ~IsDigit(Head(body)) THEN NaN
        ELSE [nan |-> FALSE,
              neg |-> signed /\ Head(t) = "-",
              val |-> DigitsValue(body, 0)]

(***************************************************************************)
(* String(n) of a number that holds an integer: the shortest decimal       *)
(* numeral, "-" before a negative one, "NaN" for NaN; -0 prints as "0".    *)
(***************************************************************************)
RECURSIVE NatToString(_)
NatToString(n) ==
    IF n < 10 THEN <<Digits[n + 1]>>
    ELSE NatToString(n \div 10) \o <<Digits[(n % 10) + 1]>>

String(x) ==
    IF x.nan THEN <<"N", "a", "N">>
    ELSE IF x.neg /\ x.val # 0 THEN <<"-">> \o NatToString(x.val)
    ELSE NatToString(x.val)

(***************************************************************************)
(* oldKey * 16807 in IEEE double arithmetic.  |oldKey| < 2^31 makes the    *)
(* product smaller than 2^46, below the 2^53 up to which every integer is  *)
(* a double, so the product is the exact integer: it is kept here in two   *)
(* limbs, hi * 2^16 + lo.                                                  *)
(***************************************************************************)
Limb == 65536

HalfLimb == 32768

Times16807(n) ==
    LET a == n \div Limb
        b == n % Limb
        low == b * LCGMultiplier
    IN  [hi |-> a * LCGMultiplier + (low \div Limb), lo |-> low % Limb]

(***************************************************************************)
(* x % 2147483647 of a non-negative two-limb integer.  2^31 = 1 modulo     *)
(* 2^31 - 1, so hi * 2^16 = (hi div 2^15) + (hi mod 2^15) * 2^16.          *)
(***************************************************************************)
AddMod(x, y, m) == IF x >= m - y THEN x - (m - y) ELSE x + y

RemModulus(w) ==
    LET folded == ((w.hi \div HalfLimb) + (w.hi % HalfLimb) * Limb) % LCGModulus
    IN  AddMod(folded, w.lo, LCGModulus)

(***************************************************************************)
(* The product truncated to its low 31 bits: what integer arithmetic of    *)
(* 32 bits would keep of it.                                               *)
(***************************************************************************)
RemModulusTruncated(w) ==
    (((w.hi % HalfLimb) * Limb) + w.lo) % LCGModulus

(***************************************************************************)
(* (oldKey * 16807) % 2147483647 on numbers: NaN stays NaN, and % takes    *)
(* the sign of the dividend.                                               *)
(***************************************************************************)
LCGStepMissingCarry(x) ==
    IF x.nan THEN NaN
    ELSE [nan |-> FALSE, neg |-> x.neg, val |-> RemModulusTruncated(Times16807(x.val))]

LCGStep(x) ==
    IF x.nan THEN NaN
    ELSE [nan |-> FALSE, neg |-> x.neg, val |-> RemModulus(Times16807(x.val))]

regenerateSecretKey(currentKey) == String(LCGStep(parseInt(currentKey)))

(***************************************************************************)
(* secretKeyMod = parseInt(secretKey, 10) % 256, as the template literal   *)
(* of the signature base prints it.                                        *)
(***************************************************************************)
SecretKeyMod(secretKey) ==
    LET x == parseInt(secretKey)
    IN  String(IF x.nan THEN NaN
               ELSE [nan |-> FALSE, neg |-> x.neg, val |-> x.val % SigModulus])

(***************************************************************************)
(* The MD5 digest of `${secretKeyMod}${time}${uri}?${query}` stands as the *)
(* tuple of the parts of its base string.                                  *)
(***************************************************************************)
generateRequestSignature(secretKey, time, uri, query) ==
    [mod |-> SecretKeyMod(secretKey), time |-> time, uri |-> uri, query |-> query]

(***************************************************************************)
(* Keys of query parameters are atomic strings; Spelling gives the         *)
(* characters of each.  A character is a one-character string, and the two *)
(* characters outside ASCII are written by their code points: "U+00E9" is  *)
(* the letter e with acute, "U+0301" the combining acute accent.           *)
(***************************************************************************)
LowerCase ==
    <<"a", "b", "c", "d", "e", "f", "g", "h", "i", "j", "k", "l", "m",
      "n", "o", "p", "q", "r", "s", "t", "u", "v", "w", "x", "y", "z">>

UpperCase ==
    <<"A", "B", "C", "D", "E", "F", "G", "H", "I", "J", "K", "L", "M",
      "N", "O", "P", "Q", "R", "S", "T", "U", "V", "W", "X", "Y", "Z">>

Within(seq, ch) == \E i \in 1..Len(seq) : seq[i] = ch

IndexOf(seq, ch) == CHOOSE i \in 1..Len(seq) : seq[i] = ch

\* the keys the core sends
CoreKeys ==
    {"action_on_duplicate", "folder_key", "key", "path", "quick_key",
     "response_format", "session_token", "signature"}

\* keys a caller of apiCall passes in its params
CallerKeys ==
    {"B", "a", "a1", "a_", "e-acute (NFC)", "e-acute (NFD)", "response_format"}

Keys == CoreKeys \cup CallerKeys

Spelling(k) ==
    CASE k = "B" -> <<"B">>
      [] k = "a" -> <<"a">>
      [] k = "a1" -> <<"a", "1">>
      [] k = "a_" -> <<"a", "_">>
      [] k = "e-acute (NFC)" -> <<"U+00E9">>
      [] k = "e-acute (NFD)" -> <<"e", "U+0301">>
      [] k = "action_on_duplicate" ->
            <<"a", "c", "t", "i", "o", "n", "_", "o", "n", "_", "d", "u",
              "p", "l", "i", "c", "a", "t", "e">>
      [] k = "folder_key" ->
            <<"f", "o", "l", "d", "e", "r", "_", "k", "e", "y">>
      [] k = "key" ->
            <<"k", "e", "y">>
      [] k = "path" ->
            <<"p", "a", "t", "h">>
      [] k = "quick_key" ->
            <<"q", "u", "i", "c", "k", "_", "k", "e", "y">>
      [] k = "response_format" ->
            <<"r", "e", "s", "p", "o", "n", "s", "e", "_", "f", "o", "r",
              "m", "a", "t">>
      [] k = "session_token" ->
            <<"s", "e", "s", "s", "i", "o", "n", "_", "t", "o", "k", "e",
              "n">>
      [] k = "signature" ->
            <<"s", "i", "g", "n", "a", "t", "u", "r", "e">>

(***************************************************************************)
(* String.prototype.localeCompare with no locale argument: the collation   *)
(* of the runtime's default locale.  On the characters above every locale  *)
(* collates as the root collation does: canonically equivalent strings are *)
(* equal; strings differ first by their letters (punctuation before        *)
(* digits before letters, the case and the accents set aside), then by     *)
(* their accents, then by their case, lower case first.                    *)
(***************************************************************************)
\* the canonical decomposition of a string
RECURSIVE Decomposed(_)
Decomposed(str) ==
    IF str = <<>> THEN <<>>
    ELSE (IF Head(str) = "U+00E9" THEN <<"e", "U+0301">> ELSE <<Head(str)>>)
         \o Decomposed(Tail(str))

\* the weight of a character at a level of the collation; 0: ignored there
CollationWeight(ch, level) ==
    IF level = 1
    THEN IF ch = "U+0301" THEN 0
         ELSE IF ch = "_" THEN 1
         ELSE IF IsDigit(ch) THEN 1 + IndexOf(Digits, ch)
         ELSE IF Within(LowerCase, ch) THEN 11 + IndexOf(LowerCase, ch)
         ELSE 11 + IndexOf(UpperCase, ch)
    ELSE IF level = 2
    THEN IF ch = "U+0301" THEN 2 ELSE 1
    ELSE IF Within(UpperCase, ch) THEN 2 ELSE 1

\* the weights of a string at a level, the ignored characters left out
CollationLevel(str, level) ==
    LET d == Decomposed(str)
        w == [i \in 1..Len(d) |-> CollationWeight(d[i], level)]
    IN  SelectSeq(w, LAMBDA x : x # 0)

\* sequences of numbers compared entry by entry, a prefix before its extensions
RECURSIVE CompareWeights(_, _)
CompareWeights(x, y) ==
    IF x = <<>> THEN (IF y = <<>> THEN 0 ELSE -1)
    ELSE IF y = <<>> THEN 1
    ELSE IF Head(x) < Head(y) THEN -1
    ELSE IF Head(x) > Head(y) THEN 1
    ELSE CompareWeights(Tail(x), Tail(y))

\* the sort key of every key, at the three levels
CollationKey ==
    [k \in Keys |-> [level \in 1..3 |-> CollationLevel(Spelling(k), level)]]

localeCompare(a, b) ==
    LET primary == CompareWeights(CollationKey[a][1], CollationKey[b][1])
        secondary == CompareWeights(CollationKey[a][2], CollationKey[b][2])
        tertiary == CompareWeights(CollationKey[a][3], CollationKey[b][3])
    IN  IF primary # 0 THEN primary
        ELSE IF secondary # 0 THEN secondary
        ELSE tertiary

(***************************************************************************)
(* sortParams: Array.prototype.sort is stable, so entries whose keys       *)
(* compare equal keep their order.                                         *)
(***************************************************************************)
RECURSIVE InsertSorted(_, _)
InsertSorted(sorted, e) ==
    IF sorted = <<>> THEN <<e>>
    ELSE IF localeCompare(e[1], Head(sorted)[1]) < 0 THEN <<e>> \o sorted
    ELSE <<Head(sorted)>> \o InsertSorted(Tail(sorted), e)

RECURSIVE sortParams(_)
sortParams(params) ==
    IF params = <<>> THEN <<>>
    ELSE InsertSorted(sortParams(SubSeq(params, 1, Len(params) - 1)),
                      params[Len(params)])

(***************************************************************************)
(* Data of the environment: what the server answers and what callers pass. *)
(***************************************************************************)
K1 == <<"1">>

K16807 == <<"1", "6", "8", "0", "7">>

KMax == <<"2", "1", "4", "7", "4", "8", "3", "6", "4", "6">>

KPadded == <<"0", "0", "7">>

Emails == {"a@x", "b@x"}

NoSessionRec == [sessionToken |-> "", secretKey |-> <<>>, time |-> "", email |-> ""]

\* response.session_token / secret_key / time of a login answer; "" and <<>> when absent
LoginPayloads ==
    { [session_token |-> "T1", secret_key |-> K1, time |-> "1700"],
      [session_token |-> "", secret_key |-> <<>>, time |-> ""] }

\* SessionData objects a caller hands to setSession
SessionDatas ==
    { [sessionToken |-> "T3", secretKey |-> KPadded, time |-> "1900", email |-> "c@x"] }

(***************************************************************************)
(* An HTTP answer: net = fetch resolved, ok = response.ok, json = the body *)
(* parses, env = response.result of the parsed body ("NoResponse": the     *)
(* body has no response object), newKey = response.new_key is 'yes', and   *)
(* what the payload carries: the upload key of a submit answer, and the    *)
(* status / quickkey / fileerror of a poll answer; message and error: the  *)
(* response.message and response.error an error envelope carries, "" in    *)
(* the other bodies.                                                       *)
(***************************************************************************)
Envelopes == {"Success", "Error", "Other", "NoResponse"}

ServerMessage == "Invalid or expired session token"

ServerCode == "105"

Body(json, env, newKey, key, s99, qk, fe) ==
    [json |-> json, env |-> env, newKey |-> newKey, key |-> key,
     status99 |-> s99, quickkey |-> qk, fileerror |-> fe,
     message |-> IF json /\ env = "Error" THEN ServerMessage ELSE "",
     error |-> IF json /\ env = "Error" THEN ServerCode ELSE ""]

BadBody == Body(FALSE, "NoResponse", FALSE, FALSE, FALSE, FALSE, FALSE)

PlainBodies ==
    {BadBody} \cup
    { Body(TRUE, e, n, FALSE, FALSE, FALSE, FALSE) :
        e \in Envelopes \ {"NoResponse"}, n \in BOOLEAN } \cup
    { Body(TRUE, "NoResponse", FALSE, FALSE, FALSE, FALSE, FALSE) }

SubmitBodies ==
    PlainBodies \cup
    { Body(TRUE, e, n, TRUE, FALSE, FALSE, FALSE) :
        e \in {"Success", "Error"}, n \in BOOLEAN }

PollBodies ==
    PlainBodies \cup
    { Body(TRUE, "Success", n, FALSE, s, q, f) :
        n \in BOOLEAN, s \in BOOLEAN, q \in BOOLEAN, f \in BOOLEAN }

Answer(net, ok, body) == [net |-> net, ok |-> ok, body |-> body]

FlaggedSuccess == Body(TRUE, "Success", TRUE, TRUE, TRUE, TRUE, FALSE)

\* the fetch fails, or it answers with a success status and any of the bodies,
\* or with another status and a body that does not parse or one that does
Answers(bodies) ==
    { Answer(FALSE, FALSE, BadBody) } \cup
    { Answer(TRUE, TRUE, b) : b \in bodies } \cup
    { Answer(TRUE, FALSE, b) : b \in {BadBody, FlaggedSuccess} }

LoginAnswers ==
    { [net |-> a.net, ok |-> a.ok, body |-> a.body, fields |-> p] :
        a \in Answers(PlainBodies), p \in LoginPayloads }

(***************************************************************************)
(* State.                                                                  *)
(*   session   this.session of the client: NoSession (null) or the         *)
(*             InternalSession object it refers to                         *)
(*   heap      the InternalSession objects created so far; operations in   *)
(*             flight hold references to them                              *)
(*   nobj      how many objects exist                                      *)
(*   calls     the operations in flight, one per slot                      *)
(*   started   how many operations were started                            *)
(*   rotCount  per object, how many times its secretKey was regenerated    *)
(*   modules   this._user, this._files, this._folders, this._upload of the *)
(*             client: the module objects its accessors constructed        *)
(*   caller    what the code that uses the client keeps: the module        *)
(*             objects the accessors returned to it, and one SessionData   *)
(*             object                                                      *)
(***************************************************************************)
VARIABLES session, heap, nobj, calls, started, rotCount, modules, caller

vars == <<session, heap, nobj, calls, started, rotCount, modules, caller>>

NoSig == [mod |-> <<>>, time |-> "", uri |-> "", query |-> <<>>]

\* undefined
NoValue == [undefined |-> TRUE]

\* filehash, payload: the x-filehash header and the body of a submit request
NoReq ==
    [uri |-> "", query |-> <<>>, signed |-> FALSE, signature |-> NoSig,
     filehash |-> NoValue, payload |-> <<>>]

\* an Error object: its class, its message and, of a MediaFireError, its code
Thrown(name, message, code) == [name |-> name, message |-> message, code |-> code]

NoError == Thrown("", "", "")

MediaFireError(message, code) == Thrown("MediaFireError", message, code)

\* throw new Error('Not authenticated. Please call login() first.')
NotAuthenticated == Thrown("Error", "Not authenticated. Please call login() first.", "")

\* what fetch rejects with
FetchFailed == Thrown("TypeError", "fetch failed", "")

\* reading a property of undefined
UndefinedRead == Thrown("TypeError", "Cannot read properties of undefined", "")

\* response.status of an answer that is not ok
BadStatus == "500"

\* a || b on strings
OrElse(a, b) == IF a # "" THEN a ELSE b

\* kind: which operation; pc: where it waits; sess: its local `session`;
\* req: the request it transmitted last; sigKey, sigAt: the secretKey of sess
\* and its rotCount when req was signed; sent: requests transmitted; attempt: the poll loop's counter;
\* params: the params argument of a bare apiCall, the params buffer builds;
\* maxAttempts: the argument of the pollUpload that runs;
\* outcome: how it ended; flag / rotated: of the answer it took last, whether
\* its parsed envelope carried new_key = 'yes' and how many rotations its
\* handling applied; ret: the value it returned; err: the error it threw.
IdleCall ==
    [kind |-> "none", pc |-> "idle", sess |-> NoSession, email |-> "",
     req |-> NoReq, sigKey |-> <<>>, sigAt |-> 0, sent |-> 0, attempt |-> 0, outcome |-> "",
     flag |-> FALSE, rotated |-> 0, ret |-> NoValue, err |-> NoError,
     params |-> <<>>, maxAttempts |-> 0]

Families == {"user", "files", "folders", "upload"}

\* a module object: id tells the objects of one family apart, 0 where none
\* is constructed; under: this.session at the time of the construction (the
\* object itself keeps the function getInternalSession, no session)
NoModule == [id |-> 0, under |-> NoSession]

\* a SessionData object in the hands of the caller: its own four fields, or,
\* alias # 0, the very object the client has as its session
NoData == [held |-> FALSE, alias |-> NoSession, fields |-> NoSessionRec]

\* first, last: the objects the first and the latest access of a family returned
NoCaller ==
    [mods |-> [f \in Families |-> [first |-> 0, last |-> 0]], data |-> NoData]

\* An object that neither this.session nor an operation refers to is garbage:
\* the heap keeps no content for it.
Referenced(o, sess, cs) == sess = o \/ \E c \in CallIds : cs[c].sess = o

Collected(h, sess, cs) ==
    [o \in ObjIds |-> IF Referenced(o, sess, cs) THEN h[o] ELSE NoSessionRec]

\* no operation starts while a poll loop is suspended
FreeSlotNoSuspendedLoop(c) ==
    calls[c].pc = "idle" /\ \A d \in CallIds : calls[d].pc # "delay"

\* a new operation takes a free slot
FreeSlot(c) == calls[c].pc = "idle"

\* uploads and bare apiCalls run in the first slot; the other slot holds the
\* login or the module operation beside them
UploadSlots == {1}

Init ==
    /\ session = NoSession
    /\ heap = [o \in ObjIds |-> NoSessionRec]
    /\ nobj = 0
    /\ calls = [c \in CallIds |-> IdleCall]
    /\ started = 0
    /\ rotCount = [o \in ObjIds |-> 0]
    /\ modules = [f \in Families |-> NoModule]
    /\ caller = NoCaller

getInternalSession == session

Uri(endpoint) == <<"/api/1.3/", endpoint, ".php">>

(***************************************************************************)
(* apiCall up to its fetch: the query, sorted, and the signature appended  *)
(* when the session has a secret key and a time.                           *)
(***************************************************************************)
\* session_token appended whatever the session is
ApiQueryParamsAlwaysToken(h, s, params) ==
    <<<<"response_format", "json">>,
      <<"session_token", IF s = NoSession THEN "" ELSE h[s].sessionToken>>>>
    \o params

\* the undefined values of params sent along
ApiQueryParamsKeepsUndefined(h, s, params) ==
    <<<<"response_format", "json">>>>
    \o (IF s # NoSession /\ h[s].sessionToken # ""
        THEN <<<<"session_token", h[s].sessionToken>>>> ELSE <<>>)
    \o params

\* a value of params that is undefined, which is no string
UndefinedParam == "(undefined)"

ApiQueryParams(h, s, params) ==
    <<<<"response_format", "json">>>>
    \o (IF s # NoSession /\ h[s].sessionToken # ""
        THEN <<<<"session_token", h[s].sessionToken>>>> ELSE <<>>)
    \o SelectSeq(params, LAMBDA e : e[2] # UndefinedParam)

ApiSigns(h, s) == s # NoSession /\ h[s].secretKey # <<>> /\ h[s].time # ""

ApiRequest(h, s, endpoint, params) ==
    LET sortedParams == sortParams(ApiQueryParams(h, s, params))
        signature == IF ApiSigns(h, s)
                     THEN generateRequestSignature(h[s].secretKey, h[s].time,
                                                   Uri(endpoint), sortedParams)
                     ELSE NoSig
    IN  [uri |-> Uri(endpoint), query |-> sortedParams,
         signed |-> ApiSigns(h, s), signature |-> signature,
         filehash |-> NoValue, payload |-> <<>>]

\* the body of the request: the sorted entries, the signature appended
Transmitted(req) ==
    IF req.signed THEN req.query \o <<<<"signature", req.signature>>>> ELSE req.query

(***************************************************************************)
(* apiCall after its fetch: how the call ends and whether it regenerates   *)
(* the secret key.                                                         *)
(***************************************************************************)
ApiParsed(r) == r.net /\ r.ok /\ r.body.json

ApiOutcome(r) ==
    IF ~r.net THEN "NetworkError"
    ELSE IF ~r.ok THEN "HttpError"
    ELSE IF ~r.body.json THEN "InvalidJSON"
    ELSE IF r.body.env = "Error" THEN "ApiError"
    ELSE "returned"

\* data.response, the value apiCall returns: undefined when the body has none
Payload(body) ==
    IF body.env = "NoResponse" THEN NoValue
    ELSE [result |-> body.env, new_key |-> body.newKey, key |-> body.key,
          status99 |-> body.status99, quickkey |-> body.quickkey,
          fileerror |-> body.fileerror, message |-> body.message,
          error |-> body.error]

ApiReturn(r) == IF ApiOutcome(r) = "returned" THEN Payload(r.body) ELSE NoValue

\* the error of an error envelope raised without the server's code
ApiThrownNoCode(r) ==
    CASE ApiOutcome(r) = "NetworkError" -> FetchFailed
      [] ApiOutcome(r) = "HttpError" ->
            MediaFireError(<<"API request failed: ", BadStatus>>, BadStatus)
      [] ApiOutcome(r) = "InvalidJSON" -> MediaFireError("Invalid JSON response", "")
      [] ApiOutcome(r) = "ApiError" ->
            MediaFireError(OrElse(r.body.message, "Unknown MediaFire API error"), "")
      [] OTHER -> NoError

ApiThrown(r) ==
    CASE ApiOutcome(r) = "NetworkError" -> FetchFailed
      [] ApiOutcome(r) = "HttpError" ->
            MediaFireError(<<"API request failed: ", BadStatus>>, BadStatus)
      [] ApiOutcome(r) = "InvalidJSON" -> MediaFireError("Invalid JSON response", "")
      [] ApiOutcome(r) = "ApiError" ->
            MediaFireError(OrElse(r.body.message, "Unknown MediaFire API error"),
                           r.body.error)
      [] OTHER -> NoError

ApiRotatesAlways(r, s) == ApiOutcome(r) = "returned" /\ s # NoSession

ApiRotates(r, s) == ApiOutcome(r) = "returned" /\ r.body.newKey /\ s # NoSession

\* the rotation that also takes the time of the session forward
RotatedWithTime(h, s) ==
    [h EXCEPT ![s].secretKey = regenerateSecretKey(@), ![s].time = "now"]

\* the rotation written to whatever this.session is when the answer comes
RotatedCurrent(h, s) ==
    IF session = NoSession THEN h
    ELSE [h EXCEPT ![session].secretKey = regenerateSecretKey(@)]

Rotated(h, s) == [h EXCEPT ![s].secretKey = regenerateSecretKey(@)]

RECURSIVE SumTo(_, _)
SumTo(f, n) == IF n = 0 THEN 0 ELSE f[n] + SumTo(f, n - 1)

\* the server sends at most MaxRotations rotation instructions
WithinRotations(r, s) ==
    (r.net /\ r.body.json /\ r.body.newKey /\ s # NoSession)
        => SumTo(rotCount, MaxObjs) < MaxRotations

\* the record of a finished or continuing operation after one answer
\* A finished operation keeps what it did (outcome, sent, attempt, flag,
\* rotated) and drops its request; one whose last answer carried the rotation
\* flag keeps which session object it used and what it signed with.
Answered(call, pc, outcome, flag, rot) ==
    IF pc = "done"
    THEN [call EXCEPT !.pc = pc, !.outcome = outcome, !.flag = flag,
                      !.rotated = IF rot THEN 1 ELSE 0, !.req = NoReq,
                      !.email = "", !.params = <<>>, !.maxAttempts = 0,
                      !.sess = IF flag \/ rot THEN @ ELSE NoSession,
                      !.sigAt = IF flag \/ rot THEN @ ELSE 0,
                      !.sigKey = IF flag \/ rot THEN @ ELSE <<>>]
    ELSE [call EXCEPT !.pc = pc, !.outcome = outcome, !.flag = flag,
                      !.rotated = IF rot THEN 1 ELSE 0]

\* the record of an operation that returned ret or threw err
Ended(call, ret, err) == [call EXCEPT !.ret = ret, !.err = err]

(***************************************************************************)
(* MediaFireClient.login: the request is sent without a session; the       *)
(* answer is parsed with response.json() and, when its result is           *)
(* 'Success', a new session object replaces this.session.                  *)
(***************************************************************************)
LoginOutcome(r) ==
    IF ~r.net THEN "NetworkError"
    ELSE IF ~r.body.json THEN "InvalidJSON"
    ELSE IF r.body.env # "Success" THEN "ApiError"
    ELSE "ok"

LoginSession(r, email) ==
    [sessionToken |-> r.fields.session_token, secretKey |-> r.fields.secret_key,
     time |-> r.fields.time, email |-> email]

\* this.session after a login answer that raises
SessionAfterFailedLoginCleared(cur) == NoSession

SessionAfterFailedLogin(cur) == cur

Login(c, email) ==
    /\ FreeSlot(c)
    /\ started < MaxOps
    /\ calls' = [calls EXCEPT ![c] =
          [IdleCall EXCEPT !.kind = "login", !.pc = "fetch", !.email = email,
                           !.sent = 1]]
    /\ started' = started + 1
    /\ UNCHANGED <<session, heap, nobj, rotCount, modules, caller>>

LoginFailure(c, r) ==
    /\ calls[c].kind = "login" /\ calls[c].pc = "fetch"
    /\ LoginOutcome(r) # "ok"
    /\ session' = SessionAfterFailedLogin(session)
    /\ calls' = [calls EXCEPT ![c] =
          Answered(@, "done", LoginOutcome(r), FALSE, FALSE)]
    /\ heap' = Collected(heap, session', calls')
    /\ UNCHANGED <<nobj, started, rotCount, modules, caller>>

\* the session object itself handed out
SessionCopyShared(o, rec) == [held |-> TRUE, alias |-> o, fields |-> NoSessionRec]

\* the object login and getSession return: a new one with the four fields of
\* session object o copied into it
SessionCopy(o, rec) == [held |-> TRUE, alias |-> NoSession, fields |-> rec]

LoginSuccess(c, r) ==
    /\ calls[c].kind = "login" /\ calls[c].pc = "fetch"
    /\ LoginOutcome(r) = "ok"
    /\ nobj < MaxObjs
    /\ nobj' = nobj + 1
    /\ session' = nobj + 1
    /\ calls' = [calls EXCEPT ![c] =
          [@ EXCEPT !.pc = "done", !.outcome = "ok", !.sess = nobj + 1,
                    !.ret = SessionCopy(nobj + 1, LoginSession(r, calls[c].email))]]
    /\ heap' = Collected([heap EXCEPT ![nobj + 1] = LoginSession(r, calls[c].email)],
                         session', calls')
    /\ UNCHANGED <<started, rotCount, modules, caller>>

(***************************************************************************)
(* isAuthenticated and getSession: whether this.session is set, and a copy *)
(* of its four fields (null when it is not).                               *)
(***************************************************************************)
Null == [null |-> TRUE]

isAuthenticated == session # NoSession

getSession ==
    IF session = NoSession THEN Null
    ELSE [sessionToken |-> heap[session].sessionToken,
          secretKey |-> heap[session].secretKey,
          time |-> heap[session].time,
          email |-> heap[session].email]

(***************************************************************************)
(* logout and setSession.                                                  *)
(***************************************************************************)
\* logout that raises when there is no session to drop
LogoutRequiresSession ==
    /\ session # NoSession
    /\ session' = NoSession
    /\ heap' = Collected(heap, session', calls)
    /\ UNCHANGED <<nobj, calls, started, rotCount, modules, caller>>

Logout ==
    /\ session' = NoSession
    /\ heap' = Collected(heap, session', calls)
    /\ UNCHANGED <<nobj, calls, started, rotCount, modules, caller>>

\* setSession that stores the secret key as the numeral of its value
SetSessionNormalised(d) ==
    /\ nobj < MaxObjs
    /\ nobj' = nobj + 1
    /\ session' = nobj + 1
    /\ heap' = Collected([heap EXCEPT ![nobj + 1] =
                            [sessionToken |-> d.sessionToken,
                             secretKey |-> String(parseInt(d.secretKey)),
                             time |-> d.time, email |-> d.email]],
                         session', calls)
    /\ UNCHANGED <<calls, started, rotCount, modules, caller>>

SetSession(d) ==
    /\ nobj < MaxObjs
    /\ nobj' = nobj + 1
    /\ session' = nobj + 1
    /\ heap' = Collected([heap EXCEPT ![nobj + 1] =
                            [sessionToken |-> d.sessionToken, secretKey |-> d.secretKey,
                             time |-> d.time, email |-> d.email]],
                         session', calls)
    /\ UNCHANGED <<calls, started, rotCount, modules, caller>>

(***************************************************************************)
(* The caller and its SessionData object: it keeps what login or           *)
(* getSession returned, passes the object to setSession, and assigns to a  *)
(* field of it.                                                            *)
(***************************************************************************)
\* the four fields of a SessionData object as they read now
ReadData(d, h) == IF d.alias # NoSession THEN h[d.alias] ELSE d.fields

\* data = await client.login(...), the login in slot c having ended well
KeepLoginResult(c) ==
    /\ calls[c].kind = "login" /\ calls[c].pc = "done" /\ calls[c].outcome = "ok"
    /\ caller' = [caller EXCEPT !.data = calls[c].ret]
    /\ calls' = [calls EXCEPT ![c] = IdleCall]
    /\ heap' = Collected(heap, session, calls')
    /\ UNCHANGED <<session, nobj, started, rotCount, modules>>

\* data = client.getSession(), with a session installed
ExportSession ==
    /\ isAuthenticated
    /\ caller' = [caller EXCEPT !.data = SessionCopy(session, getSession)]
    /\ UNCHANGED <<session, heap, nobj, calls, started, rotCount, modules>>

\* client.setSession(data)
ImportSession ==
    /\ caller.data.held
    /\ SetSession(ReadData(caller.data, heap))

\* what the caller assigns
CallerSecret == <<"9">>

\* data.secretKey = '9'
CallerWrites ==
    /\ caller.data.held
    /\ ReadData(caller.data, heap).secretKey # CallerSecret
    /\ IF caller.data.alias = NoSession
       THEN /\ caller' = [caller EXCEPT !.data.fields.secretKey = CallerSecret]
            /\ heap' = heap
       ELSE /\ heap' = [heap EXCEPT ![caller.data.alias].secretKey = CallerSecret]
            /\ caller' = caller
    /\ UNCHANGED <<session, nobj, calls, started, rotCount, modules>>

(***************************************************************************)
(* A module operation (user / files / folders, upload.check, .instant):    *)
(* the guard on getSession(), then one apiCall with that session.          *)
(***************************************************************************)
ModuleGuardMissing(s) == TRUE

\* if (!session) throw new Error('Not authenticated. ...')
ModuleGuard(s) == s # NoSession

ModuleOp(c, endpoint) ==
    /\ FreeSlot(c)
    /\ started < MaxOps
    /\ started' = started + 1
    /\ LET s == getInternalSession
       IN  calls' = [calls EXCEPT ![c] =
             IF ~ModuleGuard(s)
             THEN [IdleCall EXCEPT !.kind = "api", !.pc = "done",
                                   !.outcome = "NotAuthenticated",
                                   !.err = NotAuthenticated]
             ELSE [IdleCall EXCEPT !.kind = "api", !.pc = "fetch", !.sess = s,
                                   !.req = ApiRequest(heap, s, endpoint, <<>>),
                                   !.sigKey = IF s = NoSession THEN <<>> ELSE heap[s].secretKey,
                                   !.sigAt = IF s = NoSession THEN 0 ELSE rotCount[s],
                                   !.sent = 1]]
    /\ UNCHANGED <<session, heap, nobj, rotCount, modules, caller>>

(***************************************************************************)
(* The module accessors of the client (get user, get files, get folders,   *)
(* get upload), and an operation invoked on a module object the caller     *)
(* obtained from one.                                                      *)
(***************************************************************************)
NewModule(f) == [id |-> modules[f].id + 1, under |-> session]

\* a module constructed at every access
ModuleOfAlwaysNew(f) == NewModule(f)

\* if (!this._user) this._user = new UserModule(this.getInternalSession);
\* return this._user
ModuleOf(f) == IF modules[f].id = 0 THEN NewModule(f) ELSE modules[f]

Access(f) ==
    /\ modules' = [modules EXCEPT ![f] = ModuleOf(f)]
    /\ caller' = [caller EXCEPT !.mods[f] =
          [first |-> IF @.first = 0 THEN ModuleOf(f).id ELSE @.first,
           last |-> ModuleOf(f).id]]
    /\ modules' # modules \/ caller' # caller
    /\ UNCHANGED <<session, heap, nobj, calls, started, rotCount>>

\* the session the module was constructed under
ModuleSessionAtConstruction(f) == modules[f].under

\* this.getSession() of a module: getInternalSession of the client
ModuleSession(f) == getInternalSession

ModuleOpOn(c, f, endpoint) ==
    /\ caller.mods[f].first # 0
    /\ FreeSlot(c)
    /\ started < MaxOps
    /\ started' = started + 1
    /\ LET s == ModuleSession(f)
       IN  calls' = [calls EXCEPT ![c] =
             IF ~ModuleGuard(s)
             THEN [IdleCall EXCEPT !.kind = "api", !.pc = "done",
                                   !.outcome = "NotAuthenticated",
                                   !.err = NotAuthenticated]
             ELSE [IdleCall EXCEPT !.kind = "api", !.pc = "fetch", !.sess = s,
                                   !.req = ApiRequest(heap, s, endpoint, <<>>),
                                   !.sigKey = heap[s].secretKey,
                                   !.sigAt = rotCount[s],
                                   !.sent = 1]]
    /\ UNCHANGED <<session, heap, nobj, rotCount, modules, caller>>

(***************************************************************************)
(* apiCall invoked by itself with params and a session argument; a module  *)
(* operation is the call with a session, so Next takes this one with none. *)
(***************************************************************************)
ApiCall(c, endpoint, params, s) ==
    /\ FreeSlot(c)
    /\ started < MaxOps
    /\ started' = started + 1
    /\ calls' = [calls EXCEPT ![c] =
          [IdleCall EXCEPT !.kind = "direct", !.pc = "fetch", !.sess = s,
                           !.params = params,
                           !.req = ApiRequest(heap, s, endpoint, params),
                           !.sigKey = IF s = NoSession THEN <<>> ELSE heap[s].secretKey,
                                   !.sigAt = IF s = NoSession THEN 0 ELSE rotCount[s],
                           !.sent = 1]]
    /\ UNCHANGED <<session, heap, nobj, rotCount, modules, caller>>

\* the call as one answer to its request leaves it
ApiAnswered(c, r) ==
    Ended(Answered(calls[c], "done",
                   IF ApiOutcome(r) = "returned" THEN "ok" ELSE ApiOutcome(r),
                   ApiParsed(r) /\ r.body.newKey, ApiRotates(r, calls[c].sess)),
          ApiReturn(r), ApiThrown(r))

ApiResponse(c, r) ==
    /\ calls[c].kind \in {"api", "direct"} /\ calls[c].pc = "fetch"
    /\ WithinRotations(r, calls[c].sess)
    /\ LET s == calls[c].sess
           rot == ApiRotates(r, s)
       IN  /\ rotCount' = IF rot THEN [rotCount EXCEPT ![s] = @ + 1] ELSE rotCount
           /\ calls' = [calls EXCEPT ![c] = ApiAnswered(c, r)]
           /\ heap' = Collected(IF rot THEN Rotated(heap, s) ELSE heap, session, calls')
    /\ UNCHANGED <<session, nobj, started, modules, caller>>

\* the caller takes the result or the error: the slot is free again
Return(c) ==
    /\ calls[c].pc = "done"
    /\ calls' = [calls EXCEPT ![c] = IdleCall]
    /\ heap' = Collected(heap, session, calls')
    /\ UNCHANGED <<session, nobj, started, rotCount, modules, caller>>

(***************************************************************************)
(* UploadModule.buffer up to its fetch: the guard, then the submit request *)
(* built in line: session_token is always a parameter, the entries are     *)
(* sorted with the default sort, and the signature is always appended.     *)
(***************************************************************************)
\* the characters of the values the upload sends
Characters(str) ==
    IF str \in Keys THEN Spelling(str)
    ELSE CASE str = "" -> <<>>
           [] str = "json" -> <<"j", "s", "o", "n">>
           [] str = "T1" -> <<"T", "1">>
           [] str = "T3" -> <<"T", "3">>
           [] str = "0k" -> <<"0", "k">>
           [] str = "keep" -> <<"k", "e", "e", "p">>
           [] str = "/docs" -> <<"/", "d", "o", "c", "s">>

\* the UTF-16 code unit of a character
CodeUnit(ch) ==
    IF ch = "U+00E9" THEN 233
    ELSE IF ch = "U+0301" THEN 769
    ELSE IF ch = "," THEN 44
    ELSE IF ch = "/" THEN 47
    ELSE IF ch = "_" THEN 95
    ELSE IF IsDigit(ch) THEN 47 + IndexOf(Digits, ch)
    ELSE IF Within(UpperCase, ch) THEN 64 + IndexOf(UpperCase, ch)
    ELSE 96 + IndexOf(LowerCase, ch)

\* String(entry) of an entry [key, value]: the two joined by a comma
EntryString(e) == Characters(e[1]) \o <<",">> \o Characters(e[2])

CodeUnits(str) == [i \in 1..Len(str) |-> CodeUnit(str[i])]

\* the comparison of Array.prototype.sort with no comparator: the elements
\* as strings, by their code units
DefaultCompare(a, b) ==
    CompareWeights(CodeUnits(EntryString(a)), CodeUnits(EntryString(b)))

RECURSIVE InsertByDefault(_, _)
InsertByDefault(sorted, e) ==
    IF sorted = <<>> THEN <<e>>
    ELSE IF DefaultCompare(e, Head(sorted)) < 0 THEN <<e>> \o sorted
    ELSE <<Head(sorted)>> \o InsertByDefault(Tail(sorted), e)

\* the entries left in the order they were appended
sortEntriesUnsorted(params) == params

RECURSIVE sortEntries(_)
sortEntries(params) ==
    IF params = <<>> THEN <<>>
    ELSE InsertByDefault(sortEntries(SubSeq(params, 1, Len(params) - 1)),
                         params[Len(params)])

\* crypto.createHash('sha256').update(buffer).digest('hex'): the digest
\* stands as the bytes it was computed over
sha256(buffer) == [sha256 |-> buffer]

\* options of an upload: '' where the caller gives none; hash: undefined or
\* a digest
NoOptions == [folderKey |-> "", actionOnDuplicate |-> "", path |-> "", hash |-> NoValue]

\* the bytes a caller uploads when nothing else is said
LocalBytes == <<104, 105>>

\* options.hash || sha256(buffer)
UploadHash(buffer, options) ==
    IF options.hash # NoValue THEN options.hash ELSE sha256(buffer)

\* the params of the submit request in the order buffer appends them
UploadParams(h, s, options) ==
    <<<<"response_format", "json">>, <<"session_token", h[s].sessionToken>>>>
    \o (IF options.folderKey # "" THEN <<<<"folder_key", options.folderKey>>>> ELSE <<>>)
    \o (IF options.actionOnDuplicate # ""
        THEN <<<<"action_on_duplicate", options.actionOnDuplicate>>>> ELSE <<>>)
    \o (IF options.path # "" THEN <<<<"path", options.path>>>> ELSE <<>>)

UploadRequest(h, s, buffer, options) ==
    LET uri == Uri("upload/simple")
        query == sortEntries(UploadParams(h, s, options))
    IN  [uri |-> uri, query |-> query, signed |-> TRUE,
         signature |-> [mod |-> SecretKeyMod(h[s].secretKey), time |-> h[s].time,
                        uri |-> uri, query |-> query],
         filehash |-> UploadHash(buffer, options), payload |-> buffer]

BufferGuard(s) == s # NoSession

Buffer(c, buffer, options) ==
    /\ FreeSlot(c)
    /\ started < MaxOps
    /\ started' = started + 1
    /\ LET s == getInternalSession
       IN  calls' = [calls EXCEPT ![c] =
             IF ~BufferGuard(s)
             THEN [IdleCall EXCEPT !.kind = "upload", !.pc = "done",
                                   !.outcome = "NotAuthenticated",
                                   !.err = NotAuthenticated]
             ELSE [IdleCall EXCEPT !.kind = "upload", !.pc = "submit", !.sess = s,
                                   !.params = UploadParams(heap, s, options),
                                   !.req = UploadRequest(heap, s, buffer, options),
                                   !.sigKey = heap[s].secretKey,
                                   !.sigAt = rotCount[s],
                                   !.sent = 1]]
    /\ UNCHANGED <<session, heap, nobj, rotCount, modules, caller>>

\* UploadModule.file: the guard, the file read, its hash computed and handed
\* to buffer in the place of whatever hash the options carry
File(c, fileBuffer, options) ==
    Buffer(c, fileBuffer, [options EXCEPT !.hash = sha256(fileBuffer)])

(***************************************************************************)
(* UploadModule.buffer after its fetch.  response.ok is not looked at.     *)
(***************************************************************************)
SubmitParsed(r) == r.net /\ r.body.json

\* the upload key taken from any envelope that carries one
SubmitOutcomeKeyOnly(r) ==
    IF ~r.net THEN "NetworkError"
    ELSE IF ~r.body.json THEN "InvalidJSON"
    ELSE IF ~r.body.key THEN "NoUploadKey"
    ELSE "poll"

\* the upload key never looked at
SubmitOutcomeAnyKey(r) ==
    IF ~r.net THEN "NetworkError"
    ELSE IF ~r.body.json THEN "InvalidJSON"
    ELSE IF r.body.env # "Success" THEN "ApiError"
    ELSE "poll"

SubmitOutcome(r) ==
    IF ~r.net THEN "NetworkError"
    ELSE IF ~r.body.json THEN "InvalidJSON"
    ELSE IF r.body.env # "Success" THEN "ApiError"
    ELSE IF ~r.body.key THEN "NoUploadKey"
    ELSE "poll"

SubmitThrown(r) ==
    CASE SubmitOutcome(r) = "NetworkError" -> FetchFailed
      [] SubmitOutcome(r) = "InvalidJSON" -> MediaFireError("Invalid upload response", "")
      [] SubmitOutcome(r) = "ApiError" ->
            MediaFireError(OrElse(r.body.message, "Upload failed"), r.body.error)
      [] SubmitOutcome(r) = "NoUploadKey" -> MediaFireError("No upload key received", "")
      [] OTHER -> NoError

UploadTimedOut == MediaFireError("Upload timed out", "")

SubmitRotates(r, s) ==
    SubmitParsed(r) /\ r.body.env = "Success" /\ r.body.newKey /\ s # NoSession

\* the submit request sent again in the place of a poll
PollRequestResubmits(h, s) == UploadRequest(h, s, LocalBytes, NoOptions)

PollRequest(h, s) == ApiRequest(h, s, "upload/poll_upload", <<<<"key", "UK">>>>)

(***************************************************************************)
(* One answer to the submit request.  With an upload key the handler goes  *)
(* on into pollUpload: its own guard on getSession(), then the first poll  *)
(* request, signed with that session as it is now.                         *)
(***************************************************************************)
PollGuard(s) == s # NoSession

\* the loop entered whatever maxAttempts is
PollLoopEntersAlways(maxAttempts) == TRUE

\* attempt < maxAttempts with attempt = 0
PollLoopEnters(maxAttempts) == 0 < maxAttempts

\* the call as one submit answer leaves it
SubmitAnswered(c, r) ==
    LET s == calls[c].sess
        rot == SubmitRotates(r, s)
        h == IF rot THEN Rotated(heap, s) ELSE heap
        rc == IF rot THEN [rotCount EXCEPT ![s] = @ + 1] ELSE rotCount
        flag == SubmitParsed(r) /\ r.body.newKey
        p == getInternalSession
    IN  IF SubmitOutcome(r) # "poll"
        THEN Ended(Answered(calls[c], "done", SubmitOutcome(r), flag, rot),
                   NoValue, SubmitThrown(r))
        ELSE IF ~PollGuard(p)
        THEN Ended(Answered(calls[c], "done", "NotAuthenticated", flag, rot),
                   NoValue, NotAuthenticated)
        ELSE IF ~PollLoopEnters(PollBudget)
        THEN Ended(Answered(calls[c], "done", "UploadTimeout", flag, rot),
                   NoValue, UploadTimedOut)
        ELSE Answered([calls[c] EXCEPT !.sess = p, !.req = PollRequest(h, p),
                                       !.params = <<>>,
                                       !.maxAttempts = PollBudget,
                                       !.sigKey = h[p].secretKey,
                                       !.sigAt = rc[p], !.sent = @ + 1,
                                       !.attempt = 0],
                      "poll", "", flag, rot)

SubmitResponse(c, r) ==
    /\ calls[c].kind = "upload" /\ calls[c].pc = "submit"
    /\ WithinRotations(r, calls[c].sess)
    /\ LET s == calls[c].sess
           rot == SubmitRotates(r, s)
           h == IF rot THEN Rotated(heap, s) ELSE heap
           rc == IF rot THEN [rotCount EXCEPT ![s] = @ + 1] ELSE rotCount
       IN  /\ rotCount' = rc
           /\ calls' = [calls EXCEPT ![c] = SubmitAnswered(c, r)]
           /\ heap' = Collected(h, session, calls')
    /\ UNCHANGED <<session, nobj, started, modules, caller>>

(***************************************************************************)
(* pollUpload: one answer to a poll request, through apiCall.              *)
(***************************************************************************)
\* the file the caller uploads, and what the server reports of it
LocalFilename == "local.bin"

LocalSize == [nan |-> FALSE, neg |-> FALSE, val |-> 7]

QuickKey == "QK"

ServerFilename == "server.bin"

ServerSize == <<"4", "2">>

FileError == "1"

\* what pollUpload returns of a complete poll answer
PollReturn(body) ==
    [quickKey |-> QuickKey, filename |-> ServerFilename, size |-> parseInt(ServerSize)]

\* what buffer returns of it: result.filename || filename, result.size || fileSize
UploadResult(result) ==
    [quickKey |-> result.quickKey,
     filename |-> OrElse(result.filename, LocalFilename),
     size |-> IF ~result.size.nan /\ result.size.val # 0 THEN result.size ELSE LocalSize,
     uploadKey |-> "UK"]

\* an error of the poll request swallowed and the poll tried again
PollOutcomeRetriesErrors(r) ==
    IF ApiOutcome(r) # "returned" THEN "delay"
    ELSE IF r.body.env = "NoResponse" THEN "TypeError"
    ELSE IF r.body.fileerror THEN "UploadFileError"
    ELSE IF r.body.status99 /\ r.body.quickkey THEN "ok"
    ELSE "delay"

\* the complete status alone taken as the end of the upload
PollOutcomeStatusOnly(r) ==
    IF ApiOutcome(r) # "returned" THEN ApiOutcome(r)
    ELSE IF r.body.env = "NoResponse" THEN "TypeError"
    ELSE IF r.body.fileerror THEN "UploadFileError"
    ELSE IF r.body.status99 THEN "ok"
    ELSE "delay"

\* the status looked at before the file error
PollOutcomeStatusFirst(r) ==
    IF ApiOutcome(r) # "returned" THEN ApiOutcome(r)
    ELSE IF r.body.env = "NoResponse" THEN "TypeError"
    ELSE IF r.body.status99 /\ r.body.quickkey THEN "ok"
    ELSE IF r.body.fileerror THEN "UploadFileError"
    ELSE "delay"

PollOutcome(r) ==
    IF ApiOutcome(r) # "returned" THEN ApiOutcome(r)
    ELSE IF r.body.env = "NoResponse" THEN "TypeError"
    ELSE IF r.body.fileerror THEN "UploadFileError"
    ELSE IF r.body.status99 /\ r.body.quickkey THEN "ok"
    ELSE "delay"

PollThrown(r) ==
    CASE PollOutcome(r) = "TypeError" -> UndefinedRead
      [] PollOutcome(r) = "UploadFileError" ->
            MediaFireError(<<"Upload error: ", FileError>>, "")
      [] PollOutcome(r) \in {"ok", "delay"} -> NoError
      [] OTHER -> ApiThrown(r)

\* the operations that run the loop of pollUpload: buffer, and pollUpload
\* called by itself
PollKinds == {"upload", "pollUpload"}

\* pollUpload called by itself: the guard, then the first poll request, or
\* the timeout at once when the loop has no iteration
PollUpload(c, maxAttempts) ==
    /\ FreeSlot(c)
    /\ started < MaxOps
    /\ started' = started + 1
    /\ LET s == getInternalSession
       IN  calls' = [calls EXCEPT ![c] =
             IF ~PollGuard(s)
             THEN [IdleCall EXCEPT !.kind = "pollUpload", !.pc = "done",
                                   !.outcome = "NotAuthenticated",
                                   !.err = NotAuthenticated]
             ELSE IF ~PollLoopEnters(maxAttempts)
             THEN [IdleCall EXCEPT !.kind = "pollUpload", !.pc = "done",
                                   !.maxAttempts = maxAttempts,
                                   !.outcome = "UploadTimeout",
                                   !.err = UploadTimedOut]
             ELSE [IdleCall EXCEPT !.kind = "pollUpload", !.pc = "poll", !.sess = s,
                                   !.maxAttempts = maxAttempts,
                                   !.req = PollRequest(heap, s),
                                   !.sigKey = heap[s].secretKey,
                                   !.sigAt = rotCount[s],
                                   !.sent = 1]]
    /\ UNCHANGED <<session, heap, nobj, rotCount, modules, caller>>

\* the call as one poll answer leaves it
PollAnswered(c, r) ==
    Ended(Answered(calls[c], IF PollOutcome(r) = "delay" THEN "delay" ELSE "done",
                   IF PollOutcome(r) = "delay" THEN "" ELSE PollOutcome(r),
                   ApiParsed(r) /\ r.body.newKey, ApiRotates(r, calls[c].sess)),
          IF PollOutcome(r) # "ok" THEN NoValue
          ELSE IF calls[c].kind = "upload" THEN UploadResult(PollReturn(r.body))
          ELSE PollReturn(r.body),
          PollThrown(r))

PollResponse(c, r) ==
    /\ calls[c].kind \in PollKinds /\ calls[c].pc = "poll"
    /\ WithinRotations(r, calls[c].sess)
    /\ LET s == calls[c].sess
           rot == ApiRotates(r, s)
       IN  /\ rotCount' = IF rot THEN [rotCount EXCEPT ![s] = @ + 1] ELSE rotCount
           /\ calls' = [calls EXCEPT ![c] = PollAnswered(c, r)]
           /\ heap' = Collected(IF rot THEN Rotated(heap, s) ELSE heap, session, calls')
    /\ UNCHANGED <<session, nobj, started, modules, caller>>

\* every attempt reads this.session again and fails when there is none
DelayElapsedRereadsSession(c) ==
    /\ calls[c].kind = "upload" /\ calls[c].pc = "delay"
    /\ LET s == getInternalSession
       IN  calls' = [calls EXCEPT ![c] =
             IF calls[c].attempt + 1 >= calls[c].maxAttempts
             THEN Ended(Answered([@ EXCEPT !.attempt = @ + 1], "done",
                                 "UploadTimeout", FALSE, FALSE),
                        NoValue, UploadTimedOut)
             ELSE IF s = NoSession
             THEN Ended(Answered([@ EXCEPT !.attempt = @ + 1], "done",
                                 "NotAuthenticated", FALSE, FALSE),
                        NoValue, NotAuthenticated)
             ELSE [@ EXCEPT !.pc = "poll", !.attempt = @ + 1,
                            !.flag = FALSE, !.rotated = 0, !.sess = s,
                            !.req = PollRequest(heap, s),
                            !.sigKey = heap[s].secretKey, !.sigAt = rotCount[s],
                            !.sent = @ + 1]]
    /\ heap' = Collected(heap, session, calls')
    /\ UNCHANGED <<session, nobj, started, rotCount, modules, caller>>

\* every poll signed with the secret the loop read for its last request
DelayElapsedSnapshotSecret(c) ==
    /\ calls[c].kind = "upload" /\ calls[c].pc = "delay"
    /\ LET s == calls[c].sess
           snapshot == [heap EXCEPT ![s].secretKey = calls[c].sigKey]
       IN  calls' = [calls EXCEPT ![c] =
             IF calls[c].attempt + 1 < calls[c].maxAttempts
             THEN [@ EXCEPT !.pc = "poll", !.attempt = @ + 1,
                            !.flag = FALSE, !.rotated = 0,
                            !.req = PollRequest(snapshot, s),
                            !.sent = @ + 1]
             ELSE Ended(Answered([@ EXCEPT !.attempt = @ + 1], "done",
                                 "UploadTimeout", FALSE, FALSE),
                        NoValue, UploadTimedOut)]
    /\ heap' = Collected(heap, session, calls')
    /\ UNCHANGED <<session, nobj, started, rotCount, modules, caller>>

\* one poll more than the budget allows
DelayElapsedOneMore(c) ==
    /\ calls[c].kind = "upload" /\ calls[c].pc = "delay"
    /\ LET s == calls[c].sess
       IN  calls' = [calls EXCEPT ![c] =
             IF calls[c].attempt + 1 <= calls[c].maxAttempts
             THEN [@ EXCEPT !.pc = "poll", !.attempt = @ + 1,
                            !.flag = FALSE, !.rotated = 0,
                            !.req = PollRequest(heap, s),
                            !.sigKey = heap[s].secretKey, !.sigAt = rotCount[s],
                            !.sent = @ + 1]
             ELSE Ended(Answered([@ EXCEPT !.attempt = @ + 1], "done",
                                 "UploadTimeout", FALSE, FALSE),
                        NoValue, UploadTimedOut)]
    /\ heap' = Collected(heap, session, calls')
    /\ UNCHANGED <<session, nobj, started, rotCount, modules, caller>>

\* the next poll sent without counting the attempt
DelayElapsedUncounted(c) ==
    /\ calls[c].kind = "upload" /\ calls[c].pc = "delay"
    /\ LET s == calls[c].sess
       IN  calls' = [calls EXCEPT ![c] =
             IF calls[c].attempt + 1 < calls[c].maxAttempts
             THEN [@ EXCEPT !.pc = "poll",
                            !.flag = FALSE, !.rotated = 0,
                            !.req = PollRequest(heap, s),
                            !.sigKey = heap[s].secretKey, !.sigAt = rotCount[s],
                            !.sent = @ + 1]
             ELSE Ended(Answered([@ EXCEPT !.attempt = @ + 1], "done",
                                 "UploadTimeout", FALSE, FALSE),
                        NoValue, UploadTimedOut)]
    /\ heap' = Collected(heap, session, calls')
    /\ UNCHANGED <<session, nobj, started, rotCount, modules, caller>>

\* the timer of the delay fires: attempt++, then the next request or the timeout
DelayElapsed(c) ==
    /\ calls[c].kind \in PollKinds /\ calls[c].pc = "delay"
    /\ LET s == calls[c].sess
       IN  calls' = [calls EXCEPT ![c] =
             IF calls[c].attempt + 1 < calls[c].maxAttempts
             THEN [@ EXCEPT !.pc = "poll", !.attempt = @ + 1,
                            !.flag = FALSE, !.rotated = 0,
                            !.req = PollRequest(heap, s),
                            !.sigKey = heap[s].secretKey, !.sigAt = rotCount[s],
                            !.sent = @ + 1]
             ELSE Ended(Answered([@ EXCEPT !.attempt = @ + 1], "done",
                                 "UploadTimeout", FALSE, FALSE),
                        NoValue, UploadTimedOut)]
    /\ heap' = Collected(heap, session, calls')
    /\ UNCHANGED <<session, nobj, started, rotCount, modules, caller>>

Endpoints == {"user/get_info"}

\* client.setSession(client.getSession())
Reimport == isAuthenticated /\ SetSession(getSession)

Next ==
    \/ \E c \in CallIds, e \in Emails : Login(c, e)
    \/ \E c \in CallIds, r \in LoginAnswers : LoginFailure(c, r)
    \/ \E c \in CallIds, r \in LoginAnswers : LoginSuccess(c, r)
    \/ Logout
    \/ \E d \in SessionDatas : SetSession(d)
    \/ \E c \in CallIds, e \in Endpoints : ModuleOp(c, e)
    \/ \E c \in UploadSlots, e \in Endpoints : ApiCall(c, e, <<>>, NoSession)
    \/ \E c \in CallIds, r \in Answers(PlainBodies) : ApiResponse(c, r)
    \/ \E c \in UploadSlots : Buffer(c, LocalBytes, NoOptions)
    \/ \E c \in UploadSlots, r \in Answers(SubmitBodies) : SubmitResponse(c, r)
    \/ \E c \in UploadSlots, r \in Answers(PollBodies) : PollResponse(c, r)
    \/ \E c \in UploadSlots : DelayElapsed(c)
    \/ \E c \in CallIds : Return(c)

Spec == Init /\ [][Next]_vars

(***************************************************************************)
(* One operation at a time: the caller awaits each operation before it     *)
(* starts the next, and exports and imports the session in between.        *)
(***************************************************************************)
NextSolo ==
    \/ \E c \in UploadSlots, e \in Emails : Login(c, e)
    \/ \E c \in UploadSlots, r \in LoginAnswers : LoginFailure(c, r)
    \/ \E c \in UploadSlots, r \in LoginAnswers : LoginSuccess(c, r)
    \/ Logout
    \/ \E d \in SessionDatas : SetSession(d)
    \/ Reimport
    \/ \E c \in UploadSlots, e \in Endpoints : ModuleOp(c, e)
    \/ \E c \in UploadSlots, e \in Endpoints : ApiCall(c, e, <<>>, NoSession)
    \/ \E c \in UploadSlots, r \in Answers(PlainBodies) : ApiResponse(c, r)
    \/ \E c \in UploadSlots : Buffer(c, LocalBytes, NoOptions)
    \/ \E c \in UploadSlots, r \in Answers(SubmitBodies) : SubmitResponse(c, r)
    \/ \E c \in UploadSlots, r \in Answers(PollBodies) : PollResponse(c, r)
    \/ \E c \in UploadSlots : DelayElapsed(c)
    \/ \E c \in UploadSlots : Return(c)

SpecSolo == Init /\ [][NextSolo]_vars

(***************************************************************************)
(* regenerateSecretKey by itself: one session whose secret key starts at   *)
(* one of the seeds and is regenerated MaxChain times in a row.            *)
(***************************************************************************)
LCGSeeds ==
    { <<"0">>, K1, K16807, KPadded, KMax,
      <<"6", "5", "5", "3", "6">>,
      <<"1", "2", "7", "7", "7", "3">>,
      <<"1", "0", "7", "3", "7", "4", "1", "8", "2", "4">>,
      <<"2", "1", "4", "7", "4", "8", "3", "6", "4", "7">>,
      <<"-", "1">>, <<>> }

InitLCG ==
    /\ session = 1
    /\ nobj = 1
    /\ \E k \in LCGSeeds :
         heap = [o \in ObjIds |->
                   IF o = 1
                   THEN [sessionToken |-> "T1", secretKey |-> k, time |-> "1700",
                         email |-> "a@x"]
                   ELSE NoSessionRec]
    /\ calls = [c \in CallIds |-> IdleCall]
    /\ started = 0
    /\ rotCount = [o \in ObjIds |-> 0]
    /\ modules = [f \in Families |-> NoModule]
    /\ caller = NoCaller

Regenerate ==
    /\ rotCount[1] < MaxChain
    /\ heap' = Rotated(heap, 1)
    /\ rotCount' = [rotCount EXCEPT ![1] = @ + 1]
    /\ UNCHANGED <<session, nobj, calls, started, modules, caller>>

SpecLCG == InitLCG /\ [][Regenerate]_vars

(***************************************************************************)
(* apiCall with params: a session is installed, and one call after the     *)
(* other passes the session and a params object.  The entries of an object *)
(* have distinct keys and come in insertion order; a value may be          *)
(* undefined.                                                              *)
(***************************************************************************)
ParamValues == {"1", UndefinedParam}

DistinctKeys(ps) == \A i, j \in 1..Len(ps) : ps[i][1] = ps[j][1] => i = j

ParamLists ==
    { ps \in UNION { [1..n -> CallerKeys \X ParamValues] : n \in 0..MaxParams } :
        DistinctKeys(ps) }

InitParams ==
    /\ session = 1
    /\ nobj = 1
    /\ heap = [o \in ObjIds |->
                 IF o = 1
                 THEN [sessionToken |-> "T3", secretKey |-> KPadded, time |-> "1900",
                       email |-> "c@x"]
                 ELSE NoSessionRec]
    /\ calls = [c \in CallIds |-> IdleCall]
    /\ started = 0
    /\ rotCount = [o \in ObjIds |-> 0]
    /\ modules = [f \in Families |-> NoModule]
    /\ caller = NoCaller

NextParams ==
    \/ \E c \in UploadSlots, e \in Endpoints, ps \in ParamLists :
          ApiCall(c, e, ps, getInternalSession)
    \/ \E c \in UploadSlots, r \in Answers(PlainBodies) : ApiResponse(c, r)
    \/ \E c \in UploadSlots : Return(c)

SpecParams == InitParams /\ [][NextParams]_vars

(***************************************************************************)
(* An upload and the module operations beside it, all on the one session   *)
(* that is installed.                                                      *)
(***************************************************************************)
NextShared ==
    \/ \E c \in UploadSlots : Buffer(c, LocalBytes, NoOptions)
    \/ \E c \in UploadSlots, r \in Answers(SubmitBodies) : SubmitResponse(c, r)
    \/ \E c \in UploadSlots, r \in Answers(PollBodies) : PollResponse(c, r)
    \/ \E c \in UploadSlots : DelayElapsed(c)
    \/ \E c \in CallIds \ UploadSlots, e \in Endpoints : ModuleOp(c, e)
    \/ \E c \in CallIds \ UploadSlots, r \in Answers(PlainBodies) : ApiResponse(c, r)
    \/ \E c \in CallIds : Return(c)

SpecShared == InitParams /\ [][NextShared]_vars

(***************************************************************************)
(* Signed calls on imported sessions: setSession stores the secret key it  *)
(* is given, any string, and the calls that follow sign with it.           *)
(***************************************************************************)
ImportedSecrets ==
    { <<"7">>, KPadded, <<"2", "5", "5">>, <<"5", "1", "1">>, <<"-", "1">>, <<>> }

ImportedSessions ==
    { [sessionToken |-> "T3", secretKey |-> k, time |-> "1900", email |-> "c@x"] :
        k \in ImportedSecrets }

NextImported ==
    \/ \E d \in ImportedSessions : SetSession(d)
    \/ \E c \in CallIds, e \in Endpoints : ModuleOp(c, e)
    \/ \E c \in CallIds, r \in Answers(PlainBodies) : ApiResponse(c, r)
    \/ \E c \in CallIds : Return(c)

SpecImported == Init /\ [][NextImported]_vars

(***************************************************************************)
(* The client and the module objects of its accessors: the caller obtains  *)
(* modules and invokes operations on them, one at a time, while logins,    *)
(* logout and setSession change the session.                               *)
(***************************************************************************)
\* the accessors this caller uses
UsedFamilies == {"user", "upload"}

NextModules ==
    \/ \E c \in UploadSlots, e \in Emails : Login(c, e)
    \/ \E c \in UploadSlots, r \in LoginAnswers : LoginFailure(c, r)
    \/ \E c \in UploadSlots, r \in LoginAnswers : LoginSuccess(c, r)
    \/ Logout
    \/ \E d \in SessionDatas : SetSession(d)
    \/ \E f \in UsedFamilies : Access(f)
    \/ \E c \in UploadSlots, f \in UsedFamilies, e \in Endpoints : ModuleOpOn(c, f, e)
    \/ \E c \in UploadSlots, r \in Answers(PlainBodies) : ApiResponse(c, r)
    \/ \E c \in UploadSlots : Return(c)

SpecModules == Init /\ [][NextModules]_vars

(***************************************************************************)
(* The client and the SessionData object of its caller: the caller keeps   *)
(* what login or getSession returned, assigns to it, passes it to          *)
(* setSession, and runs signed calls that rotate the secret.               *)
(***************************************************************************)
NextCaller ==
    \/ \E c \in UploadSlots, e \in Emails : Login(c, e)
    \/ \E c \in UploadSlots, r \in LoginAnswers : LoginFailure(c, r)
    \/ \E c \in UploadSlots, r \in LoginAnswers : LoginSuccess(c, r)
    \/ \E c \in UploadSlots : KeepLoginResult(c)
    \/ \E d \in SessionDatas : SetSession(d)
    \/ ExportSession
    \/ ImportSession
    \/ CallerWrites
    \/ \E c \in UploadSlots, e \in Endpoints : ModuleOp(c, e)
    \/ \E c \in UploadSlots, r \in Answers(PlainBodies) : ApiResponse(c, r)
    \/ \E c \in UploadSlots : Return(c)

SpecCaller == Init /\ [][NextCaller]_vars

(***************************************************************************)
(* Uploads by themselves on the installed session: of a file or of a       *)
(* buffer, with the options a caller may pass.                             *)
(***************************************************************************)
Payloads == {<<>>, LocalBytes}

UploadOptions ==
    [folderKey : {"", "0k"}, actionOnDuplicate : {"", "keep"}, path : {"", "/docs"},
     hash : {NoValue} \cup {sha256(b) : b \in Payloads}]

NextUpload ==
    \/ \E c \in UploadSlots, b \in Payloads, o \in UploadOptions : File(c, b, o)
    \/ \E c \in UploadSlots, b \in Payloads, o \in UploadOptions : Buffer(c, b, o)
    \/ \E c \in UploadSlots, r \in Answers(SubmitBodies) : SubmitResponse(c, r)
    \/ \E c \in UploadSlots, r \in Answers(PollBodies) : PollResponse(c, r)
    \/ \E c \in UploadSlots : DelayElapsed(c)
    \/ \E c \in UploadSlots : Return(c)

SpecUpload == InitParams /\ [][NextUpload]_vars

(***************************************************************************)
(* pollUpload called by itself on the installed session, with the          *)
(* maxAttempts a caller may pass.                                          *)
(***************************************************************************)
MaxAttemptsValues == -1..PollBudget

NextPoll ==
    \/ \E c \in CallIds, n \in MaxAttemptsValues : PollUpload(c, n)
    \/ \E c \in CallIds, r \in Answers(PollBodies) : PollResponse(c, r)
    \/ \E c \in CallIds : DelayElapsed(c)
    \/ \E c \in CallIds : Return(c)
    \/ Logout

SpecPoll == InitParams /\ [][NextPoll]_vars

(***************************************************************************)
(* The upload under fair scheduling: a request that was transmitted gets   *)
(* its answer or its failure, and the timer of a delay fires.              *)
(***************************************************************************)
UploadFairness ==
    \A c \in UploadSlots :
        /\ WF_vars(\E r \in Answers(SubmitBodies) : SubmitResponse(c, r))
        /\ WF_vars(\E r \in Answers(PollBodies) : PollResponse(c, r))
        /\ WF_vars(DelayElapsed(c))

\* uploads one after the other, the session cleared or replaced meanwhile
NextLive ==
    \/ \E c \in UploadSlots : Buffer(c, LocalBytes, NoOptions)
    \/ \E c \in UploadSlots, r \in Answers(SubmitBodies) : SubmitResponse(c, r)
    \/ \E c \in UploadSlots, r \in Answers(PollBodies) : PollResponse(c, r)
    \/ \E c \in UploadSlots : DelayElapsed(c)
    \/ \E c \in UploadSlots : Return(c)
    \/ Logout
    \/ \E d \in SessionDatas : SetSession(d)

SpecLive == InitParams /\ [][NextLive]_vars /\ UploadFairness

(***************************************************************************)
(* Properties.                                                             *)
(***************************************************************************)
Finished(c) == calls[c].pc = "done"

\* an operation that sends signed requests on a session
SignedKinds == {"api", "upload"}

\* the step in which operation c takes an answer to a request
TakesAnswer(c) ==
    /\ calls[c].kind \in {"api", "direct", "upload"}
    /\ calls[c].pc \in {"fetch", "submit", "poll"}
    /\ calls'[c] # calls[c]

\* C1: every signed call whose parsed envelope carries new_key = 'yes' has
\* advanced the secret by one regenerateSecretKey step when it returns or
\* throws, whatever the envelope's result is.
C1_FlaggedEnvelopeRotates ==
    \A c \in CallIds :
        (Finished(c) /\ calls[c].kind \in SignedKinds /\ calls[c].flag)
            => calls[c].rotated = 1

\* C2: when the two calls in flight on one session have both taken an answer
\* that carries a rotation instruction, the secret is regenerateSecretKey
\* applied twice to the value they found, in either order of the answers.
C2_ConcurrentRotationsAllApplied ==
    \A s \in ObjIds :
        ( /\ \A c \in CallIds :
                /\ Finished(c) /\ calls[c].kind = "api" /\ calls[c].flag
                /\ calls[c].sess = s
          /\ calls[1].sigKey = calls[2].sigKey
          /\ calls[1].sigAt = calls[2].sigAt )
            => /\ rotCount[s] = calls[1].sigAt + 2
               /\ heap[s].secretKey =
                    regenerateSecretKey(regenerateSecretKey(calls[1].sigKey))

\* C3: two calls on one session never both sign with the same secret value,
\* before any rotation of it, and then both apply a rotation.
C3_SignToRotateExclusive ==
    \A c, d \in CallIds :
        ( /\ c # d
          /\ Finished(c) /\ Finished(d)
          /\ calls[c].kind \in SignedKinds /\ calls[d].kind \in SignedKinds
          /\ calls[c].sess # NoSession /\ calls[c].sess = calls[d].sess
          /\ calls[c].sigAt = calls[d].sigAt )
            => ~(calls[c].rotated = 1 /\ calls[d].rotated = 1)

\* the secret key of an object that stays alive changes in this step
SecretChanges(s) ==
    /\ s <= nobj
    /\ Referenced(s, session, calls) /\ Referenced(s, session', calls')
    /\ (rotCount'[s] # rotCount[s] \/ heap'[s].secretKey # heap[s].secretKey)

\* a call that ended before apiCall or buffer had a parsed envelope
FailedBeforeParse(call) ==
    call.outcome \in {"NetworkError", "HttpError", "InvalidJSON"}

\* C4: the secret key of a session changes only in the step that handles one
\* answer whose parsed envelope carries new_key = 'yes', and then by exactly
\* one regenerateSecretKey; an answer without the flag, and one that fails as
\* a network error, a non-success status or an unparsable body, changes none.
C4_RotatesOnlyOnInstruction ==
    [][ /\ \A s \in ObjIds :
              SecretChanges(s)
                  => /\ \E c \in CallIds :
                          /\ TakesAnswer(c) /\ calls[c].sess = s
                          /\ calls'[c].flag /\ calls'[c].rotated = 1
                          /\ ~FailedBeforeParse(calls'[c])
                     /\ rotCount'[s] = rotCount[s] + 1
                     /\ heap'[s].secretKey = regenerateSecretKey(heap[s].secretKey)
        /\ \A c \in CallIds :
              (TakesAnswer(c) /\ (~calls'[c].flag \/ FailedBeforeParse(calls'[c])))
                  => /\ rotCount' = rotCount
                     /\ calls'[c].rotated = 0
      ]_vars

\* a call ended on a non-success status beside one that rotated on instruction
C4_Witness ==
    \E c, d \in CallIds :
        /\ Finished(c) /\ calls[c].kind \in SignedKinds
        /\ calls[c].outcome = "HttpError" /\ calls[c].rotated = 0
        /\ Finished(d) /\ calls[d].flag /\ calls[d].rotated = 1
        /\ rotCount[calls[d].sess] = 1

\* C5 as stated: an apiCall invoked with no session ends with a
\* not-authenticated error and has transmitted nothing.
C5_NoSessionCallRejected ==
    \A c \in CallIds :
        calls[c].kind = "direct"
            => /\ Finished(c)
               /\ calls[c].outcome = "NotAuthenticated"
               /\ calls[c].sent = 0

HasParam(query, name) == \E i \in 1..Len(query) : query[i][1] = name

\* C5: an apiCall invoked with no session transmits its request, without a
\* session_token and without a signature, and ends as the answer decides,
\* never with a not-authenticated error.
C5_NoSessionCallUnsigned ==
    \A c \in CallIds :
        calls[c].kind = "direct"
            => /\ calls[c].sent = 1
               /\ calls[c].outcome # "NotAuthenticated"
               /\ calls[c].rotated = 0
               /\ calls[c].pc = "fetch"
                    => /\ ~calls[c].req.signed
                       /\ calls[c].req.signature = NoSig
                       /\ ~HasParam(calls[c].req.query, "session_token")
                       /\ ~HasParam(calls[c].req.query, "signature")

\* an apiCall without a session has returned the parsed answer
C5_Witness ==
    \E c \in CallIds :
        /\ calls[c].kind = "direct" /\ Finished(c)
        /\ calls[c].outcome = "ok" /\ calls[c].sent = 1

\* C6: a module operation started while the client has no session ends in
\* its first step with a not-authenticated error: no request is built,
\* signed or transmitted.
C6_NoSessionFailsFast ==
    [][ \A c \in CallIds :
            ( /\ calls[c].pc = "idle"
              /\ calls'[c].kind \in SignedKinds
              /\ session = NoSession )
                => /\ calls'[c].pc = "done"
                   /\ calls'[c].outcome = "NotAuthenticated"
                   /\ calls'[c].sent = 0
                   /\ calls'[c].req = NoReq
                   /\ calls'[c].sess = NoSession
      ]_vars

\* after a session was dropped and a login failed, a module operation has
\* ended with the not-authenticated error
C6_Witness ==
    /\ session = NoSession /\ nobj >= 1
    /\ \E c, d \in CallIds :
          /\ calls[c].kind = "login" /\ Finished(c) /\ calls[c].outcome # "ok"
          /\ calls[d].kind \in SignedKinds /\ Finished(d)
          /\ calls[d].outcome = "NotAuthenticated" /\ calls[d].sent = 0

\* the step in which login c raises
LoginRaises(c) ==
    /\ calls[c].kind = "login" /\ calls[c].pc = "fetch"
    /\ calls'[c].pc = "done" /\ calls'[c].outcome # "ok"

\* C7: the step in which a login raises changes neither which session the
\* client holds (none included) nor any field of it, and creates no session.
C7_FailedLoginKeepsSession ==
    [][ \A c \in CallIds :
            LoginRaises(c)
                => /\ session' = session
                   /\ nobj' = nobj
                   /\ rotCount' = rotCount
                   /\ session # NoSession => heap'[session] = heap[session]
      ]_vars

\* a login was refused while the client held a session
C7_Witness ==
    \E c \in CallIds :
        /\ calls[c].kind = "login" /\ Finished(c)
        /\ calls[c].outcome = "ApiError"
        /\ session # NoSession /\ heap[session].sessionToken # ""

\* C8: when a login has returned, the session object it installed has a
\* token, a secret key and a time that are not empty, and the email passed
\* to that login.
C8_LoginSessionComplete ==
    \A c \in CallIds :
        (calls[c].kind = "login" /\ Finished(c) /\ calls[c].outcome = "ok")
            => LET o == heap[calls[c].sess]
               IN  /\ o.sessionToken # ""
                   /\ o.secretKey # <<>>
                   /\ o.time # ""
                   /\ o.email = calls[c].email

\* a <= b for two numerals of the same length
RECURSIVE NumeralLeq(_, _)
NumeralLeq(a, b) ==
    IF a = <<>> THEN TRUE
    ELSE IF DigitVal(Head(a)) < DigitVal(Head(b)) THEN TRUE
    ELSE IF DigitVal(Head(a)) > DigitVal(Head(b)) THEN FALSE
    ELSE NumeralLeq(Tail(a), Tail(b))

\* k is a decimal numeral of an integer in 0 .. 2^31 - 2
InRangeDecimal(k) ==
    /\ Len(k) >= 1 /\ Len(k) <= Len(KMax)
    /\ \A i \in 1..Len(k) : IsDigit(k[i])
    /\ Len(k) = Len(KMax) => NumeralLeq(k, KMax)

\* C9: whenever the client holds a session, its secret key is a decimal
\* numeral of an integer in 0 .. 2^31 - 2.
C9_SecretInRange ==
    session # NoSession => InRangeDecimal(heap[session].secretKey)

(***************************************************************************)
(* (n * 16807) mod (2^31 - 1) computed another way, with no product above  *)
(* 2^31: 2^31 - 1 = 16807 * 127773 + 2836, hence                           *)
(* 16807 * n = 16807 * (n mod 127773) - 2836 * (n div 127773) modulo       *)
(* 2^31 - 1, a value between -(2^31 - 1) and 2^31 - 1.                      *)
(***************************************************************************)
ModulusQuotient == LCGModulus \div LCGMultiplier

ModulusRemainder == LCGModulus % LCGMultiplier

ExactLCG(n) ==
    LET t == LCGMultiplier * (n % ModulusQuotient)
             - ModulusRemainder * (n \div ModulusQuotient)
    IN  IF t < 0 THEN t + LCGModulus ELSE t

K282475249 == <<"2", "8", "2", "4", "7", "5", "2", "4", "9">>

\* C10: a regeneration takes a secret key that is the numeral of n in
\* 0 .. 2^31 - 2 to the numeral of (n * 16807) mod (2^31 - 1), again in that
\* range and the same whenever the key is the same; it takes "1" to "16807"
\* and "16807" to "282475249".
C10_ExactPowerStep ==
    [][ LET k == heap[1].secretKey
        IN  /\ heap'[1].secretKey = regenerateSecretKey(k)
            /\ InRangeDecimal(k)
                 => /\ heap'[1].secretKey = NatToString(ExactLCG(DigitsValue(k, 0)))
                    /\ InRangeDecimal(heap'[1].secretKey)
            /\ k = K1 => heap'[1].secretKey = K16807
            /\ k = K16807 => heap'[1].secretKey = K282475249
      ]_vars

\* two regenerations in a row took "1" to "282475249"
C10_Witness ==
    /\ rotCount[1] = 2
    /\ heap[1].secretKey = K282475249

\* C11: logout can be called in every state and raises nothing; it leaves
\* the client without a session (isAuthenticated false, getSession null) and
\* touches nothing else; called without a session it changes nothing.
C11_LogoutIdempotent ==
    /\ ENABLED ( /\ Logout
                 /\ ~isAuthenticated' /\ getSession' = Null
                 /\ UNCHANGED <<nobj, calls, started, rotCount, modules, caller>>
                 /\ \A c \in CallIds :
                       calls[c].sess # NoSession
                           => heap'[calls[c].sess] = heap[calls[c].sess] )
    /\ ~isAuthenticated => ENABLED (Logout /\ UNCHANGED vars)

\* the client was logged out of a session it held
C11_Witness ==
    /\ ~isAuthenticated /\ getSession = Null
    /\ nobj >= 1

\* C12: setSession(d) followed by getSession() gives d, field for field, the
\* secret key included as the string it was; setSession(getSession()) leaves
\* what getSession() gives unchanged.
C12_ExportImportRoundTrip ==
    nobj < MaxObjs
        => /\ \A d \in SessionDatas : ENABLED (SetSession(d) /\ getSession' = d)
           /\ isAuthenticated
                => ENABLED (SetSession(getSession) /\ getSession' = getSession)

\* a session whose secret key was regenerated has been exported and imported
C12_Witness ==
    /\ isAuthenticated /\ nobj >= 2
    /\ rotCount[session] = 0
    /\ getSession.secretKey = regenerateSecretKey(KPadded)

\* an apiCall waits for the answer to its request
AwaitsApiAnswer(c) == calls[c].kind \in {"api", "direct"} /\ calls[c].pc = "fetch"

\* C13: an apiCall that takes an answer with a success status and a parsed
\* envelope returns the envelope's payload when its result is 'Success', and
\* throws a MediaFireError with the server's message and error code, returning
\* nothing, when its result is 'Error'.
C13_EnvelopeDecidesResult ==
    \A c \in CallIds, r \in Answers(PlainBodies) :
        (AwaitsApiAnswer(c) /\ ApiParsed(r))
            => /\ ApiAnswered(c, r).pc = "done"
               /\ r.body.env = "Success"
                    => /\ ApiAnswered(c, r).outcome = "ok"
                       /\ ApiAnswered(c, r).ret = Payload(r.body)
                       /\ ApiAnswered(c, r).ret # NoValue
                       /\ ApiAnswered(c, r).err = NoError
               /\ r.body.env = "Error"
                    => /\ ApiAnswered(c, r).outcome = "ApiError"
                       /\ ApiAnswered(c, r).ret = NoValue
                       /\ ApiAnswered(c, r).err =
                             MediaFireError(ServerMessage, ServerCode)

\* a signed apiCall has thrown the error of an error envelope
C13_Witness ==
    \E c \in CallIds :
        /\ calls[c].kind = "api" /\ Finished(c)
        /\ calls[c].outcome = "ApiError"
        /\ calls[c].err = MediaFireError(ServerMessage, ServerCode)

\* buffer waits for the answer to its submit request
AwaitsSubmitAnswer(c) == calls[c].kind = "upload" /\ calls[c].pc = "submit"

\* an answer that arrived with a non-success status or an unparsable body
BadResponse(r) == r.net /\ (~r.ok \/ ~r.body.json)

\* the handling of an answer ended in a transport error that returns nothing
RaisedTransportError(call) ==
    /\ call.pc = "done"
    /\ call.outcome \in {"HttpError", "InvalidJSON"}
    /\ call.ret = NoValue
    /\ call.err.name = "MediaFireError"

\* C14: a signed apiCall and the submit request of buffer, answered with a
\* non-success status or with a body that does not parse, end in a transport
\* error and return nothing, whatever the body holds.
C14_BadResponseRaises ==
    \A c \in CallIds :
        /\ (AwaitsApiAnswer(c) /\ calls[c].req.signed)
              => \A r \in Answers(PlainBodies) :
                    BadResponse(r) => RaisedTransportError(ApiAnswered(c, r))
        /\ AwaitsSubmitAnswer(c)
              => \A r \in Answers(SubmitBodies) :
                    BadResponse(r) => RaisedTransportError(SubmitAnswered(c, r))

\* pollUpload waits for the answer to a poll request
AwaitsPollAnswer(c) == calls[c].kind = "upload" /\ calls[c].pc = "poll"

\* a poll answer whose payload apiCall hands to pollUpload
PollPayloadOf(r) ==
    r \in Answers(PollBodies) /\ ApiOutcome(r) = "returned" /\ r.body.env # "NoResponse"

\* C15: a poll answer whose payload has a file error ends the upload with the
\* upload file error in the step that takes it, whatever its status and
\* quickkey are, and no request follows it.
C15_FileErrorIsFatal ==
    \A c \in CallIds :
        /\ AwaitsPollAnswer(c)
              => \A r \in Answers(PollBodies) :
                    (PollPayloadOf(r) /\ r.body.fileerror)
                        => /\ PollAnswered(c, r).pc = "done"
                           /\ PollAnswered(c, r).outcome = "UploadFileError"
                           /\ PollAnswered(c, r).err =
                                 MediaFireError(<<"Upload error: ", FileError>>, "")
                           /\ PollAnswered(c, r).ret = NoValue
                           /\ PollAnswered(c, r).sent = calls[c].sent
                           /\ PollAnswered(c, r).attempt = calls[c].attempt
        /\ (calls[c].kind = "upload" /\ Finished(c)
                /\ calls[c].outcome = "UploadFileError")
              => /\ calls[c].sent = calls[c].attempt + 2
                 /\ ~ENABLED DelayElapsed(c)

\* the second poll of an upload ended it with the upload file error
C15_Witness ==
    \E c \in CallIds :
        /\ calls[c].kind = "upload" /\ Finished(c)
        /\ calls[c].outcome = "UploadFileError"
        /\ calls[c].attempt = 1 /\ calls[c].sent = 3

\* C16: a poll answer with status '99', a quickkey and no file error ends the
\* upload successfully, and the call returns that quickkey with the filename
\* and the size the server reported; with status '99' and no quickkey the
\* answer ends nothing: the call goes on to the delay before the next poll.
C16_CompleteNeedsQuickKey ==
    \A c \in CallIds :
        AwaitsPollAnswer(c)
            => \A r \in Answers(PollBodies) :
                (PollPayloadOf(r) /\ r.body.status99 /\ ~r.body.fileerror)
                    => IF r.body.quickkey
                       THEN /\ PollAnswered(c, r).pc = "done"
                            /\ PollAnswered(c, r).outcome = "ok"
                            /\ PollAnswered(c, r).err = NoError
                            /\ PollReturn(r.body).quickKey = QuickKey
                            /\ PollAnswered(c, r).ret.quickKey = QuickKey
                            /\ PollAnswered(c, r).ret.filename = ServerFilename
                            /\ PollAnswered(c, r).ret.size = parseInt(ServerSize)
                       ELSE /\ PollAnswered(c, r).pc = "delay"
                            /\ PollAnswered(c, r).ret = NoValue
                            /\ PollAnswered(c, r).err = NoError

\* an upload returned the quickkey, the filename and the size of the server
C16_Witness ==
    \E c \in CallIds :
        /\ calls[c].kind = "upload" /\ Finished(c) /\ calls[c].outcome = "ok"
        /\ calls[c].ret =
              [quickKey |-> QuickKey, filename |-> ServerFilename,
               size |-> parseInt(ServerSize), uploadKey |-> "UK"]

\* the poll requests an upload has sent: all its requests but the submit
PollsSent(call) == call.sent - 1

\* a poll answer that is a terminal success
TerminalSuccess(r) ==
    PollPayloadOf(r) /\ r.body.status99 /\ r.body.quickkey /\ ~r.body.fileerror

\* C17: the poll in flight on attempt k (counted from 1) is the k-th poll
\* request; a terminal success answering it ends the upload without another
\* request, so an upload that succeeded on attempt k <= maxAttempts has sent
\* exactly k poll requests and polls no more, whatever budget remains.
C17_SuccessOnAttemptK ==
    \A c \in CallIds :
        /\ AwaitsPollAnswer(c)
              => /\ PollsSent(calls[c]) = calls[c].attempt + 1
                 /\ \A r \in Answers(PollBodies) :
                        TerminalSuccess(r)
                            => /\ PollAnswered(c, r).pc = "done"
                               /\ PollAnswered(c, r).outcome = "ok"
                               /\ PollAnswered(c, r).attempt = calls[c].attempt
                               /\ PollsSent(PollAnswered(c, r)) = PollsSent(calls[c])
        /\ (calls[c].kind = "upload" /\ Finished(c) /\ calls[c].outcome = "ok")
              => /\ PollsSent(calls[c]) = calls[c].attempt + 1
                 /\ calls[c].attempt + 1 <= PollBudget
                 /\ ~ENABLED DelayElapsed(c)

\* an upload succeeded on its second attempt, after two poll requests
C17_Witness ==
    \E c \in CallIds :
        /\ calls[c].kind = "upload" /\ Finished(c) /\ calls[c].outcome = "ok"
        /\ calls[c].attempt = 1 /\ PollsSent(calls[c]) = 2

\* C18: an upload never sends more than maxAttempts poll requests; when the
\* answer to the last of them was not terminal either, the delay after it ends
\* in the upload-timeout error without another request, so an upload that
\* timed out has sent exactly maxAttempts poll requests.
C18_TimeoutAfterBudget ==
    \A c \in CallIds :
        calls[c].kind = "upload"
            => /\ calls[c].sent <= PollBudget + 1
               /\ (calls[c].pc = "delay" /\ calls[c].attempt + 1 = PollBudget)
                    => /\ PollsSent(calls[c]) = PollBudget
                       /\ ENABLED ( /\ DelayElapsed(c)
                                    /\ calls'[c].pc = "done"
                                    /\ calls'[c].outcome = "UploadTimeout"
                                    /\ calls'[c].sent = calls[c].sent )
               /\ (Finished(c) /\ calls[c].outcome = "UploadTimeout")
                    => /\ PollsSent(calls[c]) = PollBudget
                       /\ calls[c].attempt = PollBudget
                       /\ calls[c].err = UploadTimedOut
                       /\ calls[c].ret = NoValue

\* an upload timed out after the whole budget of poll requests
C18_Witness ==
    \E c \in CallIds :
        /\ calls[c].kind = "upload" /\ Finished(c)
        /\ calls[c].outcome = "UploadTimeout"
        /\ PollsSent(calls[c]) = PollBudget
        /\ calls[c].err = UploadTimedOut

\* a submit answer that parses to a success envelope without an upload key
SuccessWithoutKey(r) ==
    r \in Answers(SubmitBodies) /\ r.net /\ r.body.json
        /\ r.body.env = "Success" /\ ~r.body.key

\* C19: a submit answer that is a success envelope without an upload key ends
\* the upload with the 'No upload key received' error, and the upload never
\* sends a poll request: its submit is the only request it has sent.
C19_NoUploadKeyIsFatal ==
    \A c \in CallIds :
        /\ AwaitsSubmitAnswer(c)
              => \A r \in Answers(SubmitBodies) :
                    SuccessWithoutKey(r)
                        => /\ SubmitAnswered(c, r).pc = "done"
                           /\ SubmitAnswered(c, r).outcome = "NoUploadKey"
                           /\ SubmitAnswered(c, r).err =
                                 MediaFireError("No upload key received", "")
                           /\ SubmitAnswered(c, r).ret = NoValue
                           /\ SubmitAnswered(c, r).sent = 1
        /\ (calls[c].kind = "upload" /\ Finished(c)
                /\ calls[c].outcome = "NoUploadKey")
              => /\ calls[c].sent = 1
                 /\ calls[c].err = MediaFireError("No upload key received", "")
                 /\ ~ENABLED DelayElapsed(c)

\* an upload ended with the missing upload key after its submit alone
C19_Witness ==
    \E c \in CallIds :
        /\ calls[c].kind = "upload" /\ Finished(c)
        /\ calls[c].outcome = "NoUploadKey"
        /\ calls[c].sent = 1

\* the step in which upload c puts a request on the wire
Transmits(c) == calls'[c].kind = "upload" /\ calls'[c].sent > calls[c].sent

IsSubmit(req) == req # NoReq /\ req.uri = Uri("upload/simple")

IsPoll(req) == req # NoReq /\ req.uri = Uri("upload/poll_upload")

\* C20: the only step of an upload call that transmits the submit request is
\* the one that starts the call; every request the call transmits after it,
\* whatever the submit or a poll was answered, is a poll request.
C20_SubmitSentOnce ==
    [][\A c \in CallIds :
          /\ Transmits(c)
                => IF calls[c].pc = "idle"
                   THEN IsSubmit(calls'[c].req) /\ calls'[c].sent = 1
                   ELSE /\ calls[c].kind = "upload"
                        /\ IsPoll(calls'[c].req)
                        /\ calls'[c].sent = calls[c].sent + 1
          /\ (calls[c].kind = "upload" /\ calls'[c] # calls[c])
                => ~IsSubmit(calls'[c].req)]_vars

\* the second poll of an upload is in flight after its one submit
C20_Witness ==
    \E c \in CallIds :
        /\ calls[c].kind = "upload" /\ calls[c].pc = "poll"
        /\ calls[c].attempt = 1 /\ calls[c].sent = 3
        /\ IsPoll(calls[c].req)

(***************************************************************************)
(* The upload job of a call.                                               *)
(***************************************************************************)
\* where the upload job of a call stands
UploadPhase(call) ==
    IF call.kind # "upload" THEN "None"
    ELSE IF call.pc = "submit" THEN "Submitted"
    ELSE IF call.pc \in {"poll", "delay"} THEN "Polling"
    ELSE IF call.outcome = "ok" THEN "Complete"
    ELSE IF call.outcome = "UploadTimeout" THEN "TimedOut"
    ELSE "Failed"

TerminalPhases == {"Complete", "Failed", "TimedOut"}

\* the moves of an upload job; a call refused by the guard of buffer fails
\* before it is a job, and the caller taking the outcome frees the slot
UploadMoves ==
    {<<"None", "Submitted">>, <<"None", "Failed">>,
     <<"Submitted", "Polling">>, <<"Submitted", "Failed">>,
     <<"Polling", "Polling">>} \cup
    { <<"Polling", t>> : t \in TerminalPhases } \cup
    { <<t, "None">> : t \in TerminalPhases }

\* a submit answer that parses to a success envelope with an upload key
ReturnedHandle(r) == r.net /\ r.body.json /\ r.body.env = "Success" /\ r.body.key

\* C21: an upload job moves only Submitted -> Polling -> Complete, Failed or
\* TimedOut; only a submit answer that returned an upload key starts the
\* polling; an ended job has one outcome, which is a result or an error, and
\* until the caller takes it nothing of it changes and no request is sent.
C21_UploadStateMachine ==
    /\ [](\A c \in CallIds :
            /\ AwaitsSubmitAnswer(c)
                  => \A r \in Answers(SubmitBodies) :
                        UploadPhase(SubmitAnswered(c, r)) = "Polling"
                            => ReturnedHandle(r)
            /\ UploadPhase(calls[c]) \in TerminalPhases
                  => /\ (UploadPhase(calls[c]) = "Complete")
                          = (calls[c].ret # NoValue)
                     /\ (UploadPhase(calls[c]) = "Complete")
                          = (calls[c].err = NoError)
                     /\ ~ENABLED DelayElapsed(c))
    /\ [][\A c \in CallIds :
            (calls'[c] # calls[c] /\ "upload" \in {calls[c].kind, calls'[c].kind})
                => /\ <<UploadPhase(calls[c]), UploadPhase(calls'[c])>> \in UploadMoves
                   /\ UploadPhase(calls[c]) \in TerminalPhases
                        => calls'[c] = IdleCall]_vars

\* an upload job went through its polling and ended complete
C21_Witness ==
    \E c \in CallIds :
        /\ UploadPhase(calls[c]) = "Complete"
        /\ calls[c].sent >= 2 /\ calls[c].ret # NoValue

\* the error a request of the core raises on answer r: the fetch fails, the
\* body does not parse, or it parses to an error envelope; apiCall raises on
\* a non-success status as well
SubmitRaises(r) ==
    IF ~r.net THEN FetchFailed
    ELSE IF ~r.body.json THEN MediaFireError("Invalid upload response", "")
    ELSE IF r.body.env = "Error" THEN MediaFireError(ServerMessage, ServerCode)
    ELSE NoError

PollRaises(r) ==
    IF ~r.net THEN FetchFailed
    ELSE IF ~r.ok THEN MediaFireError(<<"API request failed: ", BadStatus>>, BadStatus)
    ELSE IF ~r.body.json THEN MediaFireError("Invalid JSON response", "")
    ELSE IF r.body.env = "Error" THEN MediaFireError(ServerMessage, ServerCode)
    ELSE NoError

\* an upload ended by err, its last request being its n-th
EndedBy(call, err, n) ==
    /\ call.pc = "done" /\ call.err = err /\ call.ret = NoValue /\ call.sent = n

\* C22: the error the submit request or a poll request of an upload raises
\* is the error the upload throws, in the step that takes the answer: the
\* upload returns nothing, and the failed request is the last one it sent.
C22_ErrorsSurface ==
    \A c \in CallIds :
        /\ AwaitsSubmitAnswer(c)
              => \A r \in Answers(SubmitBodies) :
                    SubmitRaises(r) # NoError
                        => EndedBy(SubmitAnswered(c, r), SubmitRaises(r), calls[c].sent)
        /\ AwaitsPollAnswer(c)
              => \A r \in Answers(PollBodies) :
                    PollRaises(r) # NoError
                        => EndedBy(PollAnswered(c, r), PollRaises(r), calls[c].sent)
        /\ (calls[c].kind = "upload" /\ Finished(c) /\ calls[c].err # NoError)
              => ~ENABLED DelayElapsed(c)

\* the second poll of an upload raised the error of an error envelope
C22_Witness ==
    \E c \in CallIds :
        /\ calls[c].kind = "upload" /\ Finished(c)
        /\ calls[c].outcome = "ApiError"
        /\ calls[c].err = MediaFireError(ServerMessage, ServerCode)
        /\ calls[c].attempt = 1 /\ calls[c].sent = 3

(***************************************************************************)
(* The canonical query.                                                    *)
(***************************************************************************)
\* the bytes of a character in UTF-8
Utf8(ch) ==
    IF ch = "U+00E9" THEN <<195, 169>>
    ELSE IF ch = "U+0301" THEN <<204, 129>>
    ELSE IF ch = "_" THEN <<95>>
    ELSE IF IsDigit(ch) THEN <<47 + IndexOf(Digits, ch)>>
    ELSE IF Within(UpperCase, ch) THEN <<64 + IndexOf(UpperCase, ch)>>
    ELSE <<96 + IndexOf(LowerCase, ch)>>

RECURSIVE Bytes(_)
Bytes(str) == IF str = <<>> THEN <<>> ELSE Utf8(Head(str)) \o Bytes(Tail(str))

\* two keys compared byte by byte
ByteWiseCompare(a, b) == CompareWeights(Bytes(Spelling(a)), Bytes(Spelling(b)))

\* a bare apiCall has built its query and waits for the answer
SentWithParams(c) == calls[c].kind = "direct" /\ calls[c].pc = "fetch"

\* C23: the entries of the query apiCall transmits are ordered by key, the
\* keys compared byte by byte.
C23_ByteWiseOrder ==
    \A c \in CallIds :
        SentWithParams(c)
            => \A i, j \in 1..Len(calls[c].req.query) :
                  i < j => ByteWiseCompare(calls[c].req.query[i][1],
                                           calls[c].req.query[j][1]) <= 0

\* the entries of ps inserted in the order p
Reordered(ps, p) == [i \in 1..Len(ps) |-> ps[p[i]]]

\* the canonical query of a call with params ps on session object s
CanonicalQuery(s, ps) == sortParams(ApiQueryParams(heap, s, ps))

\* entries of q with one key stand in the order they have in orig
KeepsOrderOfEqualKeys(q, orig) ==
    \A i, j \in 1..Len(q) :
        (i < j /\ q[i][1] = q[j][1])
            => \E k, l \in 1..Len(orig) : k < l /\ orig[k] = q[i] /\ orig[l] = q[j]

\* C24: the canonical query of a call is the one every other insertion order
\* of the entries of its params gives, their keys being distinct, and the
\* entries of the query that have one key stand in their original order.
C24_InsertionOrderIrrelevant ==
    \A c \in CallIds :
        SentWithParams(c)
            => /\ \A p \in Permutations(1..Len(calls[c].params)) :
                     CanonicalQuery(calls[c].sess, Reordered(calls[c].params, p))
                        = calls[c].req.query
               /\ KeepsOrderOfEqualKeys(
                     calls[c].req.query,
                     ApiQueryParams(heap, calls[c].sess, calls[c].params))

(***************************************************************************)
(* Sessions replaced or cleared under calls in flight.                     *)
(***************************************************************************)
\* C25: the step in which a call takes its answer leaves this.session as it
\* is, absent or the same object, and when that object is not the one the
\* call was started with, leaves its four fields as login or setSession
\* stored them: the rotation goes to the object of the call alone.
C25_RotationStaysWithItsSession ==
    [][\A c \in CallIds :
          (TakesAnswer(c) /\ calls[c].kind # "login")
              => /\ session' = session
                 /\ (session # NoSession /\ session # calls[c].sess)
                      => /\ heap'[session] = heap[session]
                         /\ rotCount'[session] = rotCount[session]]_vars

\* a call has rotated the secret of the session it was started with after
\* setSession or login replaced that session; the new one is untouched
C25_Witness ==
    \E c \in CallIds :
        /\ Finished(c) /\ calls[c].rotated = 1
        /\ session # NoSession /\ calls[c].sess # session
        /\ rotCount[session] = 0
        /\ rotCount[calls[c].sess] = 1

(***************************************************************************)
(* The poll loop beside other calls.                                       *)
(***************************************************************************)
\* the poll loop of upload u is suspended in its delay
Suspended(u) == calls[u].kind = "upload" /\ calls[u].pc = "delay"

\* C26: while the poll loop of an upload is suspended in its delay, a module
\* operation can start on the session of the loop and send its request, and
\* one in flight on that session can take any answer, end, and apply the
\* rotation its answer instructs; neither step touches the suspended upload.
C26_DelayBlocksNothing ==
    \A u \in UploadSlots, c \in CallIds \ UploadSlots :
        Suspended(u)
            => /\ (calls[c].pc = "idle" /\ started < MaxOps
                        /\ session = calls[u].sess)
                    => \A e \in Endpoints :
                          ENABLED ( /\ ModuleOp(c, e)
                                    /\ calls'[c].pc = "fetch"
                                    /\ calls'[c].sess = calls[u].sess
                                    /\ calls'[u] = calls[u] )
               /\ (calls[c].kind = "api" /\ calls[c].pc = "fetch"
                        /\ calls[c].sess = calls[u].sess)
                    => \A r \in Answers(PlainBodies) :
                          WithinRotations(r, calls[c].sess)
                              => ENABLED ( /\ ApiResponse(c, r)
                                           /\ calls'[c].pc = "done"
                                           /\ calls'[u] = calls[u]
                                           /\ ApiRotates(r, calls[c].sess)
                                                => heap'[calls[u].sess].secretKey =
                                                     regenerateSecretKey(
                                                        heap[calls[u].sess].secretKey) )

\* a module operation started while the poll loop was suspended, and ended
\* with a rotation of the session's secret while the loop still is
C26_Witness ==
    \E u \in UploadSlots, c \in CallIds \ UploadSlots :
        /\ Suspended(u)
        /\ calls[c].kind = "api" /\ Finished(c) /\ calls[c].rotated = 1
        /\ calls[c].sess = calls[u].sess
        /\ calls[c].sigAt >= 1

(***************************************************************************)
(* The fields of a session object.                                         *)
(***************************************************************************)
\* session object o is in use before and after the step
StaysInUse(o) ==
    /\ o \in 1..nobj
    /\ Referenced(o, session, calls) /\ Referenced(o, session', calls')

\* C27: a step changes nothing of a session object in use but its secret
\* key, and that only by one regenerateSecretKey step of a call that takes
\* an answer on this object; this.session changes only to null or to an
\* object made in that step, all four of its fields stored together.
C27_OnlySecretMutates ==
    [][/\ \A o \in ObjIds :
            StaysInUse(o)
                => /\ heap'[o].sessionToken = heap[o].sessionToken
                   /\ heap'[o].time = heap[o].time
                   /\ heap'[o].email = heap[o].email
                   /\ heap'[o].secretKey # heap[o].secretKey
                        => /\ heap'[o].secretKey =
                                 regenerateSecretKey(heap[o].secretKey)
                           /\ \E c \in CallIds :
                                 /\ TakesAnswer(c) /\ calls[c].sess = o
                                 /\ calls[c].kind \in SignedKinds
       /\ session' # session
            => \/ session' = NoSession
               \/ /\ session' = nobj + 1 /\ nobj' = nobj + 1
                  /\ \/ \E d \in SessionDatas : heap'[session'] = d
                     \/ \E c \in CallIds, r \in LoginAnswers :
                           /\ calls[c].kind = "login"
                           /\ heap'[session'] = LoginSession(r, calls[c].email)
                     \/ session # NoSession /\ heap'[session'] = heap[session]]_vars

\* a signed call has rotated the secret of the session setSession stored:
\* its token, time and email are the stored ones
C27_Witness ==
    \E o \in ObjIds :
        /\ session = o /\ rotCount[o] = 1
        /\ heap[o] = [sessionToken |-> "T3", secretKey |-> regenerateSecretKey(KPadded),
                       time |-> "1900", email |-> "c@x"]

(***************************************************************************)
(* The poll loop and the session it captured.                              *)
(***************************************************************************)
\* the value of the entry of query with key name
ParamOf(query, name) ==
    query[CHOOSE i \in 1..Len(query) : query[i][1] = name][2]

\* C28: nothing but its own timer moves a suspended poll loop: whatever
\* login, logout or setSession made of this.session meanwhile, the step that
\* ends the delay sends the next poll, as long as attempts remain, built on
\* the session object the loop captured and with the token of that object
\* when it has one, and ends in the upload-timeout error when no attempt
\* remains; it never ends the upload as not authenticated.
C28_LoopKeepsItsSession ==
    [][\A c \in CallIds :
          (Suspended(c) /\ calls'[c] # calls[c])
              => IF calls[c].attempt + 1 < calls[c].maxAttempts
                 THEN /\ calls'[c].pc = "poll"
                      /\ calls'[c].sess = calls[c].sess
                      /\ calls'[c].sent = calls[c].sent + 1
                      /\ IsPoll(calls'[c].req)
                      /\ calls'[c].req =
                            PollRequest(heap, calls[c].sess)
                      /\ heap[calls[c].sess].sessionToken # ""
                           => /\ HasParam(calls'[c].req.query, "session_token")
                              /\ ParamOf(calls'[c].req.query, "session_token")
                                    = heap[calls[c].sess].sessionToken
                 ELSE /\ calls'[c].pc = "done"
                      /\ calls'[c].outcome = "UploadTimeout"]_vars

\* the second poll of an upload is in flight on the session the loop
\* captured, which logout has cleared or login or setSession replaced
C28_Witness ==
    \E c \in CallIds :
        /\ calls[c].kind = "upload" /\ calls[c].pc = "poll"
        /\ calls[c].attempt = 1
        /\ session # calls[c].sess
        /\ HasParam(calls[c].req.query, "session_token")

(***************************************************************************)
(* The signed request of apiCall.                                          *)
(***************************************************************************)
\* the step in which a bare apiCall signs and sends its request
SendsSigned(c) ==
    /\ calls[c].pc = "idle"
    /\ calls'[c].kind = "direct" /\ calls'[c].pc = "fetch"
    /\ calls'[c].req.signed

HasEntry(query, e) == \E i \in 1..Len(query) : query[i] = e

DefinedParams(ps) == { k \in 1..Len(ps) : ps[k][2] # UndefinedParam }

\* C29: the signature of a signed apiCall is computed from the secret key and
\* the time the session holds in the step that signs, over the sorted query;
\* that query holds response_format=json, the session token and the entries
\* of params whose value is defined, nothing else and no signature; the body
\* sent is that query with the signature appended as its last entry.
C29_SignatureOverCanonicalQuery ==
    [][\A c \in CallIds :
          SendsSigned(c)
              => LET s == calls'[c].sess
                     req == calls'[c].req
                     ps == calls'[c].params
                 IN  /\ req.signature =
                           generateRequestSignature(heap[s].secretKey, heap[s].time,
                                                    req.uri, req.query)
                     /\ req.query = CanonicalQuery(s, ps)
                     /\ HasEntry(req.query, <<"response_format", "json">>)
                     /\ HasEntry(req.query, <<"session_token", heap[s].sessionToken>>)
                     /\ \A k \in 1..Len(ps) :
                           HasEntry(req.query, ps[k]) = (k \in DefinedParams(ps))
                     /\ Len(req.query) = 2 + Cardinality(DefinedParams(ps))
                     /\ ~HasParam(req.query, "signature")
                     /\ Transmitted(req) =
                           req.query \o <<<<"signature", req.signature>>>>]_vars

\* a call signed with the rotated secret is in flight; of its two params
\* one is undefined and left out of the query
C29_Witness ==
    \E c \in CallIds :
        /\ SentWithParams(c) /\ calls[c].req.signed
        /\ calls[c].sigAt = 1
        /\ calls[c].req.signature.mod = SecretKeyMod(regenerateSecretKey(KPadded))
        /\ Len(calls[c].params) = 2
        /\ Len(calls[c].req.query) = 3

\* the step in which upload c sends a poll request
SendsPoll(c) == Transmits(c) /\ IsPoll(calls'[c].req)

\* C30: every poll request of an upload is signed with the secret key the
\* session object of the loop holds when the request is sent, every rotation
\* applied to that object before included: that of the submit answer taken
\* in the same step, those of earlier poll answers and those of other calls
\* on the session.
C30_PollSignedWithCurrentSecret ==
    [][\A c \in CallIds :
          SendsPoll(c)
              => LET s == calls'[c].sess
                     req == calls'[c].req
                 IN  /\ req.signed = ApiSigns(heap', s)
                     /\ req.signed
                          => req.signature =
                                generateRequestSignature(heap'[s].secretKey,
                                                         heap'[s].time,
                                                         req.uri, req.query)
                     /\ calls'[c].sigKey = heap'[s].secretKey
                     /\ calls'[c].sigAt = rotCount'[s]]_vars

\* the second poll of an upload is signed with the secret two rotations
\* after the one the submit was signed with, one of them applied by a module
\* operation that ran beside the upload
C30_Witness ==
    \E c \in CallIds, d \in CallIds :
        /\ calls[c].kind = "upload" /\ calls[c].pc = "poll"
        /\ calls[c].attempt = 1 /\ calls[c].sigAt = 2
        /\ calls[c].req.signature.mod =
              SecretKeyMod(regenerateSecretKey(regenerateSecretKey(KPadded)))
        /\ calls[d].kind = "api" /\ Finished(d) /\ calls[d].rotated = 1
        /\ calls[d].sess = calls[c].sess

(***************************************************************************)
(* Termination of the upload.                                              *)
(***************************************************************************)
\* an upload that has not returned or thrown yet
UploadInFlight(c) == calls[c].kind = "upload" /\ ~Finished(c)

\* C31: an upload transmits one submit request and at most PollBudget poll
\* requests, its loop counts at most PollBudget iterations, and, every
\* request answered and every delay elapsing, it returns or throws.
C31_UploadTerminates ==
    /\ [](\A c \in CallIds :
            calls[c].kind = "upload"
                => /\ calls[c].sent <= 1 + PollBudget
                   /\ calls[c].attempt <= PollBudget
                   /\ calls[c].pc \in {"submit", "poll", "delay", "done"})
    /\ \A c \in CallIds : UploadInFlight(c) ~> Finished(c)

\* an upload ended in the timeout after PollBudget polls and as many delays
C31_Witness ==
    \E c \in CallIds :
        /\ calls[c].kind = "upload" /\ Finished(c)
        /\ calls[c].outcome = "UploadTimeout"
        /\ calls[c].sent = 1 + PollBudget /\ calls[c].attempt = PollBudget

(***************************************************************************)
(* The submit request of the upload.                                       *)
(***************************************************************************)
\* C32: the hash the submit request carries in its metadata is the hash of
\* the bytes the same request carries as its body.
C32_HashOfPayload ==
    \A c \in CallIds :
        AwaitsSubmitAnswer(c)
            => calls[c].req.filehash = sha256(calls[c].req.payload)

(***************************************************************************)
(* The envelope and the payload handed back.                               *)
(***************************************************************************)
\* the envelope of answer r has the result 'Success'
SuccessEnvelope(r) == r.net /\ r.body.json /\ r.body.env = "Success"

\* the generic call hands a payload back on answer r: it raises nothing
ApiHandsBack(c, r) == ApiAnswered(c, r).err = NoError

\* the submit of an upload takes the payload of answer r and goes on with it
SubmitHandsBack(c, r) == SubmitAnswered(c, r).pc = "poll"

\* C33: a signed call hands a payload back only on an envelope whose result
\* is 'Success', the generic call and the submit of an upload alike.
C33_OnlySuccessReturned ==
    \A c \in CallIds :
        /\ AwaitsApiAnswer(c)
              => \A r \in Answers(PlainBodies) :
                    ApiHandsBack(c, r) => SuccessEnvelope(r)
        /\ AwaitsSubmitAnswer(c)
              => \A r \in Answers(SubmitBodies) :
                    SubmitHandsBack(c, r) => SuccessEnvelope(r)

(***************************************************************************)
(* The signature of the submit request.                                    *)
(***************************************************************************)
\* C34: the query of the submit request is the params of the upload as
\* sortParams orders them, its signature is what generateRequestSignature
\* gives for the secret key, the time, the uri and that query, and the
\* signature travels as the last entry.
C34_SubmitSignedLikeApiCall ==
    \A c \in CallIds :
        AwaitsSubmitAnswer(c)
            => LET s == calls[c].sess
                   req == calls[c].req
               IN  /\ req.query = sortParams(calls[c].params)
                   /\ req.signed
                   /\ req.signature =
                         generateRequestSignature(calls[c].sigKey, heap[s].time,
                                                  req.uri, req.query)
                   /\ ~HasParam(req.query, "signature")
                   /\ Transmitted(req) =
                         sortParams(calls[c].params)
                            \o <<<<"signature", req.signature>>>>

\* a submit request is in flight whose params carry the three options, in an
\* order other than the sorted one, signed with a rotated secret
C34_Witness ==
    \E c \in CallIds :
        /\ AwaitsSubmitAnswer(c)
        /\ Len(calls[c].params) = 5
        /\ calls[c].params # calls[c].req.query
        /\ calls[c].req.query[1][1] = "action_on_duplicate"
        /\ calls[c].sigAt = 1
        /\ calls[c].req.signature.mod = SecretKeyMod(regenerateSecretKey(KPadded))

(***************************************************************************)
(* What the signature depends on.                                          *)
(***************************************************************************)
\* the integer a secret key denotes
SecretValue(k) == IF parseInt(k).neg THEN 0 - parseInt(k).val ELSE parseInt(k).val

\* two secret keys denote integers congruent modulo 256
CongruentSecrets(j, k) ==
    /\ ~parseInt(j).nan /\ ~parseInt(k).nan
    /\ (SecretValue(j) - SecretValue(k)) % SigModulus = 0

\* a module operation has signed its request and waits for the answer
SignedInFlight(c) ==
    calls[c].kind = "api" /\ calls[c].pc = "fetch" /\ calls[c].req.signed

\* C35: two requests signed with secrets congruent modulo 256, for the same
\* time, uri and query, carry the same signature.
C35_SignatureOfSecretMod256 ==
    \A c, d \in CallIds :
        ( /\ SignedInFlight(c) /\ SignedInFlight(d)
          /\ CongruentSecrets(calls[c].sigKey, calls[d].sigKey)
          /\ calls[c].req.signature.time = calls[d].req.signature.time
          /\ calls[c].req.uri = calls[d].req.uri
          /\ calls[c].req.query = calls[d].req.query )
            => calls[c].req.signature = calls[d].req.signature

(***************************************************************************)
(* The module accessors.                                                   *)
(***************************************************************************)
\* the step in which an operation of a module starts in slot c
StartsModuleOp(c) == calls[c].pc = "idle" /\ calls'[c].kind = "api"

\* C36: a module object exists only once its accessor was used, every access
\* of a family returned the one object the first access constructed, and an
\* operation invoked on a module runs on the session the client holds in the
\* step the operation starts, or raises the not-authenticated error when it
\* holds none, whatever the session was when the module was constructed.
C36_ModulesLazySingletons ==
    /\ [](\A f \in Families :
            /\ (modules[f].id # 0) = (caller.mods[f].first # 0)
            /\ caller.mods[f].first # 0
                  => /\ caller.mods[f].last = caller.mods[f].first
                     /\ modules[f].id = caller.mods[f].first)
    /\ [][\A c \in CallIds :
            StartsModuleOp(c)
                => IF session = NoSession
                   THEN /\ calls'[c].pc = "done"
                        /\ calls'[c].err = NotAuthenticated
                        /\ calls'[c].sent = 0
                   ELSE /\ calls'[c].pc = "fetch"
                        /\ calls'[c].sess = session
                        /\ calls'[c].sigKey = heap[session].secretKey
                        /\ \E e \in Endpoints :
                              calls'[c].req = ApiRequest(heap, session, e, <<>>)]_vars

\* an operation is in flight on the session the client holds now, and every
\* module the caller obtained was constructed under another session or none
C36_Witness ==
    \E c \in CallIds :
        /\ session # NoSession
        /\ calls[c].kind = "api" /\ calls[c].pc = "fetch" /\ calls[c].sess = session
        /\ \E f \in Families : caller.mods[f].first # 0
        /\ \A f \in Families :
              caller.mods[f].first # 0 => modules[f].under # session

(***************************************************************************)
(* The SessionData objects that cross the interface of the client.         *)
(***************************************************************************)
\* the fields of the object the caller holds, as they read now
CallerData == ReadData(caller.data, heap)

\* C37: the object the caller holds reads the same after every step in which
\* the caller neither replaces it nor assigns to it, the rotations of the
\* session it was copied from or into included; the object the caller gets
\* carries the fields of the session, or of the login that returned it; and
\* a step in which the caller takes or changes its object, no operation of
\* the client moving, leaves every session object as it is.
C37_SessionDataIsCopy ==
    [][ /\ (caller.data.held /\ caller'.data = caller.data)
              => ReadData(caller'.data, heap') = CallerData
        /\ caller'.data # caller.data
              => \/ /\ caller.data.held
                    /\ ReadData(caller'.data, heap') =
                          [CallerData EXCEPT !.secretKey = CallerSecret]
                 \/ /\ session # NoSession
                    /\ ReadData(caller'.data, heap') = heap[session]
                 \/ \E c \in CallIds :
                       /\ calls[c].kind = "login" /\ Finished(c)
                       /\ calls[c].outcome = "ok"
                       /\ ReadData(caller'.data, heap') = heap[calls[c].sess]
                       /\ CallerData'.email = calls[c].email
        /\ (caller'.data # caller.data /\ session' = session /\ started' = started)
              => /\ \A o \in ObjIds :
                       Referenced(o, session', calls') => heap'[o] = heap[o]
                 /\ rotCount' = rotCount
      ]_vars

\* the session was installed from the object a login returned and has
\* rotated since; the caller has assigned to the object meanwhile
C37_Witness ==
    /\ caller.data.held
    /\ caller.data.fields.sessionToken = "T1"
    /\ caller.data.fields.secretKey = CallerSecret
    /\ session = 2
    /\ heap[2].sessionToken = "T1"
    /\ rotCount[2] = 1
    /\ heap[2].secretKey = regenerateSecretKey(K1)

(***************************************************************************)
(* pollUpload by itself: its budget and its delays.                        *)
(***************************************************************************)
\* the step in which a pollUpload starts in slot c
StartsPollUpload(c) == calls[c].pc = "idle" /\ calls'[c].kind = "pollUpload"

\* the step in which the pollUpload in slot c raises the timeout
RaisesTimeout(c) ==
    /\ calls'[c].kind = "pollUpload"
    /\ calls[c].pc # "done" /\ calls'[c].pc = "done"
    /\ calls'[c].outcome = "UploadTimeout"

\* C38: a pollUpload sends its first poll only when maxAttempts is positive
\* and otherwise, a session being there, raises the timeout with no poll
\* sent.  The counter of the loop, which counts the delays that elapsed, is
\* the number of polls sent before the one in flight while a poll or a delay
\* is under way and after a terminal answer, each of those polls having got
\* a non-terminal answer; a delay begins with each such answer and never
\* otherwise; and the timeout is raised by the step that ends the delay
\* after the last poll, as many delays elapsed as polls sent.
C38_DelaysMatchResponses ==
    /\ [](\A c \in CallIds :
            calls[c].kind = "pollUpload"
                => /\ calls[c].pc \in {"poll", "delay"}
                         => /\ calls[c].attempt = calls[c].sent - 1
                            /\ calls[c].sent <= calls[c].maxAttempts
                   /\ (Finished(c) /\ calls[c].outcome = "UploadTimeout")
                         => calls[c].attempt = calls[c].sent
                   /\ (Finished(c) /\ calls[c].outcome
                                        \notin {"UploadTimeout", "NotAuthenticated"})
                         => calls[c].attempt = calls[c].sent - 1)
    /\ [][\A c \in CallIds :
            /\ StartsPollUpload(c)
                  => IF session = NoSession
                     THEN calls'[c].outcome = "NotAuthenticated" /\ calls'[c].sent = 0
                     ELSE IF calls'[c].maxAttempts <= 0
                     THEN /\ Finished(c)'
                          /\ calls'[c].err = UploadTimedOut
                          /\ calls'[c].sent = 0
                     ELSE calls'[c].pc = "poll" /\ calls'[c].sent = 1
            /\ RaisesTimeout(c)
                  => \/ StartsPollUpload(c) /\ calls'[c].maxAttempts <= 0
                     \/ /\ calls[c].pc = "delay"
                        /\ calls'[c].sent = calls[c].sent
                        /\ calls[c].sent = calls[c].maxAttempts
            /\ (calls[c].kind = "pollUpload" /\ calls[c].pc = "poll"
                    /\ calls'[c] # calls[c])
                  => (calls'[c].pc = "delay")
                        = (calls'[c].pc # "done" /\ calls'[c].sent = calls[c].sent)
            /\ (calls[c].kind = "pollUpload" /\ calls'[c].pc = "delay"
                    /\ calls'[c] # calls[c])
                  => calls[c].pc = "poll"]_vars

\* one pollUpload called with maxAttempts <= 0 has raised the timeout with
\* no poll sent, another has raised it after PollBudget polls and delays
C38_Witness ==
    \E c, d \in CallIds :
        /\ calls[c].kind = "pollUpload" /\ Finished(c)
        /\ calls[c].maxAttempts <= 0 /\ calls[c].err = UploadTimedOut
        /\ calls[c].sent = 0
        /\ calls[d].kind = "pollUpload" /\ Finished(d)
        /\ calls[d].outcome = "UploadTimeout"
        /\ calls[d].sent = PollBudget /\ calls[d].attempt = PollBudget

====
